---- MODULE Spec2Model ----
(***************************************************************************)
(* Tier registry of maas-toolbox: the Tier Service (internal/service/      *)
(* tier.go), its ConfigMap-backed store (internal/storage/k8s.go), the     *)
(* name validator (internal/models/validation.go) and the HTTP handlers    *)
(* that call them (internal/api/handlers.go).                              *)
(*                                                                         *)
(* Strings that the code inspects character by character (tier and group   *)
(* names) are sequences of one-character strings, so that the validator is *)
(* computed as the code computes it.  Descriptions are opaque strings.     *)
(***************************************************************************)
EXTENDS Integers, Sequences, FiniteSets, TLC

VARIABLES
    nsExists,       \* the ConfigMap's namespace exists in the cluster
    cm,             \* the ConfigMap holding the registry document
    clusterGroups,  \* Group objects of the cluster (user.openshift.io/v1)
    workloads,      \* LLMInferenceService -> value of its tiers annotation
    last,           \* the response of the request handled last
    procs           \* in-flight requests of the interleaved specification

vars == <<nsExists, cm, clusterGroups, workloads, last, procs>>

----------------------------------------------------------------------------
\* Bounds of the model

\* longest group list of a request body of SpecGroups
MaxGroupList == 2
\* largest level of a request body (the smallest is -1)
MaxLevel == 1

----------------------------------------------------------------------------
\* Name Validator (internal/models/validation.go)

MaxNameLength == 253

\* the character class [a-z0-9] of kubernetesNameRegex
AlphaNum ==
    {"a","b","c","d","e","f","g","h","i","j","k","l","m","n","o","p","q","r",
     "s","t","u","v","w","x","y","z","0","1","2","3","4","5","6","7","8","9"}

\* the character class [a-z0-9\-:._] of kubernetesNameRegex
MiddleChars == AlphaNum \cup {"-", ":", ".", "_"}

\* unicode.IsUpper on the characters the model uses
IsUpper(r) == r \in {"A","B","C","D","E","F","G","H","I","J","K","L","M","N",
                     "O","P","Q","R","S","T","U","V","W","X","Y","Z"}

\* kubernetesNameRegex.MatchString: ^[a-z0-9]([a-z0-9\-:._]*[a-z0-9])?$
kubernetesNameRegex(name) ==
    /\ Len(name) >= 1
    /\ name[1] \in AlphaNum
    /\ \/ Len(name) = 1
       \/ /\ name[Len(name)] \in AlphaNum
          /\ \A i \in 2..(Len(name) - 1) : name[i] \in MiddleChars

\* ValidateKubernetesName without the check of the length
ValidateKubernetesName_NoLength(name) ==
    IF name = <<>> THEN "ErrGroupRequired"
    ELSE IF \E i \in 1..Len(name) : IsUpper(name[i])
         THEN "ErrInvalidKubernetesName"
    ELSE IF ~kubernetesNameRegex(name) THEN "ErrInvalidKubernetesName"
    ELSE "ok"

ValidateKubernetesName(name) ==
    IF name = <<>> THEN "ErrGroupRequired"
    ELSE IF Len(name) > MaxNameLength THEN "ErrInvalidKubernetesName"
    ELSE IF \E i \in 1..Len(name) : IsUpper(name[i])
         THEN "ErrInvalidKubernetesName"
    ELSE IF ~kubernetesNameRegex(name) THEN "ErrInvalidKubernetesName"
    ELSE "ok"

ValidateGroupName(groupName) == ValidateKubernetesName(groupName)

\* the first error of a list of results, "ok" when there is none
RECURSIVE FirstError(_)
FirstError(errs) ==
    IF errs = <<>> THEN "ok"
    ELSE IF Head(errs) # "ok" THEN Head(errs)
    ELSE FirstError(Tail(errs))

----------------------------------------------------------------------------
\* Tier (internal/models/tier.go).  A Go slice is its elements and whether it
\* is nil: a nil slice has no elements.

Tier(name, description, level, groups, groupsNil) ==
    [Name |-> name, Description |-> description, Level |-> level,
     Groups |-> groups, GroupsNil |-> groupsNil]

\* Validate without the check of the level
Validate_NoLevelCheck(t) ==
    IF t.Name = <<>> THEN "ErrTierNameRequired"
    ELSE IF t.Description = "" THEN "ErrTierDescriptionRequired"
    ELSE FirstError([i \in 1..Len(t.Groups) |-> ValidateGroupName(t.Groups[i])])

\* Tier.Validate
Validate(t) ==
    IF t.Name = <<>> THEN "ErrTierNameRequired"
    ELSE IF t.Description = "" THEN "ErrTierDescriptionRequired"
    ELSE IF t.Level < 0 THEN "ErrTierLevelInvalid"
    ELSE FirstError([i \in 1..Len(t.Groups) |-> ValidateGroupName(t.Groups[i])])

----------------------------------------------------------------------------
\* The registry document: the "tiers" key of the ConfigMap holds YAML text.
\* The text is modelled by what yaml.v3 writes and reads: a sequence of
\* mappings with the keys name, description, level, groups.  A nil and an
\* empty Groups slice are both written as "groups: []", and read back as an
\* empty, non-nil slice.  blank is the empty string "".

YAMLText(items) == [blank |-> FALSE, items |-> items]
BlankText == [blank |-> TRUE, items |-> <<>>]

EncodeTier(t) ==
    [name |-> t.Name, description |-> t.Description, level |-> t.Level,
     groups |-> t.Groups]

\* DecodeTier that reads an empty list of groups as a nil slice
DecodeTier_NilGroups(y) ==
    Tier(y.name, y.description, y.level, y.groups, y.groups = <<>>)

DecodeTier(y) == Tier(y.name, y.description, y.level, y.groups, FALSE)

\* yaml.NewEncoder(...).Encode(config.Tiers)
EncodeTiers(tiers) == YAMLText([i \in 1..Len(tiers) |-> EncodeTier(tiers[i])])

\* yaml.Unmarshal([]byte(tiersYAML), &tiers)
DecodeTiers(text) == [i \in 1..Len(text.items) |-> DecodeTier(text.items[i])]

\* ConfigMap: absent, or present with a Data map that is nil or has keys
AbsentCM == [exists |-> FALSE, dataNil |-> TRUE, keys |-> {}, tiers |-> BlankText]
ConfigMap(dataNil, keys, text) ==
    [exists |-> TRUE, dataNil |-> dataNil, keys |-> keys, tiers |-> text]

Result(err, tiers) == [err |-> err, Tiers |-> tiers]

\* Load for which a ConfigMap that does not exist is an error
Load_AbsentIsError(ns, c) ==
    IF ~ns THEN Result("ErrNamespaceNotFound", <<>>)
    ELSE IF ~c.exists THEN Result("ErrConfigMapNotFound", <<>>)
    ELSE IF "tiers" \notin c.keys THEN Result("ok", <<>>)
    ELSE IF c.tiers.blank \/ c.tiers.items = <<>> THEN Result("ok", <<>>)
    ELSE Result("ok", DecodeTiers(c.tiers))

\* K8sTierStorage.Load
Load(ns, c) ==
    IF ~ns THEN Result("ErrNamespaceNotFound", <<>>)
    ELSE IF ~c.exists THEN Result("ok", <<>>)
    ELSE IF "tiers" \notin c.keys THEN Result("ok", <<>>)
    ELSE IF c.tiers.blank \/ c.tiers.items = <<>> THEN Result("ok", <<>>)
    ELSE Result("ok", DecodeTiers(c.tiers))

SaveResult(err, c, wrote) == [err |-> err, cm |-> c, wrote |-> wrote]

\* Save that keeps the stored tiers whose names are not in the list it writes
Save_Merge(ns, c, tiers) ==
    LET Kept(t) == \A i \in 1..Len(tiers) : tiers[i].Name # t.Name
        merged == SelectSeq(Load(ns, c).Tiers, Kept) \o tiers
    IN  IF ~ns THEN SaveResult("ErrNamespaceNotFound", c, FALSE)
        ELSE IF ~c.exists
        THEN SaveResult("ok", ConfigMap(FALSE, {"tiers"}, EncodeTiers(merged)), TRUE)
        ELSE IF c.dataNil THEN SaveResult("panic", c, FALSE)
        ELSE SaveResult("ok",
                        ConfigMap(FALSE, c.keys \cup {"tiers"}, EncodeTiers(merged)),
                        TRUE)

\* K8sTierStorage.Save.  Writing cm.Data["tiers"] of a ConfigMap whose Data is
\* nil is an assignment to an entry of a nil map: the goroutine panics.
Save(ns, c, tiers) ==
    IF ~ns THEN SaveResult("ErrNamespaceNotFound", c, FALSE)
    ELSE IF ~c.exists
         THEN SaveResult("ok", ConfigMap(FALSE, {"tiers"}, EncodeTiers(tiers)), TRUE)
    ELSE IF c.dataNil THEN SaveResult("panic", c, FALSE)
    ELSE SaveResult("ok",
                    ConfigMap(FALSE, c.keys \cup {"tiers"}, EncodeTiers(tiers)),
                    TRUE)

\* the tiers of the registry document, as stored
StoredTiers ==
    IF cm.exists /\ "tiers" \in cm.keys /\ ~cm.tiers.blank
    THEN cm.tiers.items ELSE <<>>

----------------------------------------------------------------------------
\* Group Existence Oracle (internal/storage/k8s.go).  apiUp: the point lookup
\* of the Group object reaches the API server during this request.

\* "system:authenticated", abbreviated; the colon is what matters to the
\* validator
SystemAuthenticatedGroup == <<"s", ":", "a">>

Exists(exists, err) == [exists |-> exists, err |-> err]

\* GroupExists that looks the built-in group up like any other
GroupExists_NoBuiltin(groupName, cg, apiUp) ==
    IF ~apiUp THEN Exists(FALSE, "GroupLookupFailed")
    ELSE IF groupName \notin cg THEN Exists(FALSE, "ok")
    ELSE Exists(TRUE, "ok")

\* K8sTierStorage.GroupExists
GroupExists(groupName, cg, apiUp) ==
    IF groupName = SystemAuthenticatedGroup THEN Exists(TRUE, "ok")
    ELSE IF ~apiUp THEN Exists(FALSE, "GroupLookupFailed")
    ELSE IF groupName \notin cg THEN Exists(FALSE, "ok")
    ELSE Exists(TRUE, "ok")

\* GroupCheck that takes "not found" for "exists"
GroupCheck_IgnoreMissing(groupName, cg, apiUp) ==
    GroupExists(groupName, cg, apiUp).err

\* what validateGroupsExist and AddGroup make of one lookup
GroupCheck(groupName, cg, apiUp) ==
    LET r == GroupExists(groupName, cg, apiUp)
    IN  IF r.err # "ok" THEN r.err
        ELSE IF ~r.exists THEN "ErrGroupNotFoundInCluster"
        ELSE "ok"

\* TierService.validateGroupsExist
validateGroupsExist(groups, cg, apiUp) ==
    FirstError([i \in 1..Len(groups) |-> GroupCheck(groups[i], cg, apiUp)])

----------------------------------------------------------------------------
\* Tier Service (internal/service/tier.go).  Each mutating operation is a
\* check before the load, the load, a change of the loaded list, and the
\* save.  The parts are separate operators so that the interleaved
\* specification can place other requests between the load and the save.

\* index of the first tier called name, 0 when there is none
FindTier(tiers, name) ==
    IF \E i \in 1..Len(tiers) : tiers[i].Name = name
    THEN CHOOSE i \in 1..Len(tiers) :
            /\ tiers[i].Name = name
            /\ \A j \in 1..(i - 1) : tiers[j].Name # name
    ELSE 0

\* index of the first element equal to x, 0 when there is none
IndexOf(seq, x) ==
    IF \E i \in 1..Len(seq) : seq[i] = x
    THEN CHOOSE i \in 1..Len(seq) :
            /\ seq[i] = x
            /\ \A j \in 1..(i - 1) : seq[j] # x
    ELSE 0

\* append(s[:i], s[i+1:]...) for the 1-based index i
RemoveAt(seq, i) == SubSeq(seq, 1, i - 1) \o SubSeq(seq, i + 1, Len(seq))

\* CreateTier, before the load: tier.Validate and validateGroupsExist
CreateTierCheck(tier, cg, apiUp) ==
    IF Validate(tier) # "ok" THEN Validate(tier)
    ELSE IF Len(tier.Groups) > 0 THEN validateGroupsExist(tier.Groups, cg, apiUp)
    ELSE "ok"

\* CreateTierApply without the check of the name
CreateTierApply_NoNameCheck(tiers, tier) == Result("ok", Append(tiers, tier))

\* CreateTierApply as an upsert: a tier of that name is replaced
CreateTierApply_Upsert(tiers, tier) ==
    IF \E i \in 1..Len(tiers) : tiers[i].Name = tier.Name
    THEN Result("ok", [i \in 1..Len(tiers) |->
                          IF tiers[i].Name = tier.Name THEN tier ELSE tiers[i]])
    ELSE Result("ok", Append(tiers, tier))

\* CreateTier, on the loaded list: the name check and the append
CreateTierApply(tiers, tier) ==
    IF \E i \in 1..Len(tiers) : tiers[i].Name = tier.Name
    THEN Result("ErrTierAlreadyExists", tiers)
    ELSE Result("ok", Append(tiers, tier))

\* UpdateTierMerge with the level overwritten only when it is positive
UpdateTierMerge_LevelPositive(t, name, updates, cg, apiUp) ==
    LET t1 == IF updates.Description # ""
              THEN [t EXCEPT !.Description = updates.Description] ELSE t
        t2 == IF updates.Level > 0
              THEN [t1 EXCEPT !.Level = updates.Level] ELSE t1
        syntax == FirstError([i \in 1..Len(updates.Groups) |->
                                ValidateGroupName(updates.Groups[i])])
        t3 == [t2 EXCEPT !.Groups = updates.Groups, !.GroupsNil = FALSE]
    IN  IF updates.Name # <<>> /\ updates.Name # name
        THEN [err |-> "ErrTierNameImmutable", tier |-> t]
        ELSE IF updates.GroupsNil
        THEN [err |-> Validate(t2), tier |-> t2]
        ELSE IF syntax # "ok" THEN [err |-> syntax, tier |-> t2]
        ELSE IF validateGroupsExist(updates.Groups, cg, apiUp) # "ok"
        THEN [err |-> validateGroupsExist(updates.Groups, cg, apiUp), tier |-> t2]
        ELSE [err |-> Validate(t3), tier |-> t3]

\* UpdateTier, the body of the loop for the tier found: merge and validate
UpdateTierMerge(t, name, updates, cg, apiUp) ==
    LET t1 == IF updates.Description # ""
              THEN [t EXCEPT !.Description = updates.Description] ELSE t
        t2 == IF updates.Level >= 0
              THEN [t1 EXCEPT !.Level = updates.Level] ELSE t1
        syntax == FirstError([i \in 1..Len(updates.Groups) |->
                                ValidateGroupName(updates.Groups[i])])
        t3 == [t2 EXCEPT !.Groups = updates.Groups, !.GroupsNil = FALSE]
    IN  IF updates.Name # <<>> /\ updates.Name # name
        THEN [err |-> "ErrTierNameImmutable", tier |-> t]
        ELSE IF updates.GroupsNil
        THEN [err |-> Validate(t2), tier |-> t2]
        ELSE IF syntax # "ok" THEN [err |-> syntax, tier |-> t2]
        ELSE IF validateGroupsExist(updates.Groups, cg, apiUp) # "ok"
        THEN [err |-> validateGroupsExist(updates.Groups, cg, apiUp), tier |-> t2]
        ELSE [err |-> Validate(t3), tier |-> t3]

\* UpdateTier, on the loaded list: the list as it is in memory when the loop
\* is left, with the fields merged so far
UpdateTierApply(tiers, name, updates, cg, apiUp) ==
    LET i == FindTier(tiers, name)
    IN  IF i = 0 THEN Result("ErrTierNotFound", tiers)
        ELSE LET m == UpdateTierMerge(tiers[i], name, updates, cg, apiUp)
             IN  Result(m.err, [tiers EXCEPT ![i] = m.tier])

\* DeleteTierApply that moves the last tier into the place of the deleted one
DeleteTierApply_SwapRemove(tiers, name) ==
    LET i == FindTier(tiers, name)
    IN  IF i = 0 THEN Result("ErrTierNotFound", tiers)
        ELSE Result("ok", SubSeq([tiers EXCEPT ![i] = tiers[Len(tiers)]],
                                 1, Len(tiers) - 1))

\* DeleteTier, on the loaded list
DeleteTierApply(tiers, name) ==
    LET i == FindTier(tiers, name)
    IN  IF i = 0 THEN Result("ErrTierNotFound", tiers)
        ELSE Result("ok", RemoveAt(tiers, i))

\* AddGroup, before the load: ValidateGroupName and GroupExists
AddGroupCheck(groupName, cg, apiUp) ==
    IF ValidateGroupName(groupName) # "ok" THEN ValidateGroupName(groupName)
    ELSE GroupCheck(groupName, cg, apiUp)

\* AddGroupApply that puts the group at the head of the list
AddGroupApply_Prepend(tiers, tierName, groupName) ==
    LET i == FindTier(tiers, tierName)
    IN  IF i = 0 THEN Result("ErrTierNotFound", tiers)
        ELSE IF \E j \in 1..Len(tiers[i].Groups) : tiers[i].Groups[j] = groupName
        THEN Result("ErrGroupAlreadyExists", tiers)
        ELSE Result("ok", [tiers EXCEPT ![i].Groups = <<groupName>> \o @,
                                        ![i].GroupsNil = FALSE])

\* AddGroup, on the loaded list
AddGroupApply(tiers, tierName, groupName) ==
    LET i == FindTier(tiers, tierName)
    IN  IF i = 0 THEN Result("ErrTierNotFound", tiers)
        ELSE IF \E j \in 1..Len(tiers[i].Groups) : tiers[i].Groups[j] = groupName
        THEN Result("ErrGroupAlreadyExists", tiers)
        ELSE Result("ok", [tiers EXCEPT ![i].Groups = Append(@, groupName),
                                        ![i].GroupsNil = FALSE])

\* RemoveGroup, before the load
RemoveGroupCheck(groupName) == ValidateGroupName(groupName)

\* RemoveGroupApply that removes every entry equal to the group
RemoveGroupApply_RemoveAll(tiers, tierName, groupName) ==
    LET i == FindTier(tiers, tierName)
        j == IF i = 0 THEN 0 ELSE IndexOf(tiers[i].Groups, groupName)
        Other(g) == g # groupName
    IN  IF i = 0 THEN Result("ErrTierNotFound", tiers)
        ELSE IF j = 0 THEN Result("ErrGroupNotFound", tiers)
        ELSE Result("ok", [tiers EXCEPT ![i].Groups = SelectSeq(@, Other)])

\* RemoveGroup, on the loaded list
RemoveGroupApply(tiers, tierName, groupName) ==
    LET i == FindTier(tiers, tierName)
        j == IF i = 0 THEN 0 ELSE IndexOf(tiers[i].Groups, groupName)
    IN  IF i = 0 THEN Result("ErrTierNotFound", tiers)
        ELSE IF j = 0 THEN Result("ErrGroupNotFound", tiers)
        ELSE Result("ok", [tiers EXCEPT ![i].Groups = RemoveAt(@, j)])

\* LoadApplySave that saves the list in memory before it reports the error
LoadApplySave_SaveOnError(ns, c, loaded, applied) ==
    IF loaded.err # "ok" THEN SaveResult(loaded.err, c, FALSE)
    ELSE IF applied.err # "ok"
    THEN [Save(ns, c, applied.Tiers) EXCEPT !.err = applied.err]
    ELSE Save(ns, c, applied.Tiers)

\* the load, the change and the save of one operation, with nothing between
LoadApplySave(ns, c, loaded, applied) ==
    IF loaded.err # "ok" THEN SaveResult(loaded.err, c, FALSE)
    ELSE IF applied.err # "ok" THEN SaveResult(applied.err, c, FALSE)
    ELSE Save(ns, c, applied.Tiers)

TierService_CreateTier(tier, ns, c, cg, apiUp) ==
    IF CreateTierCheck(tier, cg, apiUp) # "ok"
    THEN SaveResult(CreateTierCheck(tier, cg, apiUp), c, FALSE)
    ELSE LoadApplySave(ns, c, Load(ns, c),
                       CreateTierApply(Load(ns, c).Tiers, tier))

TierService_UpdateTier(name, updates, ns, c, cg, apiUp) ==
    LoadApplySave(ns, c, Load(ns, c),
                  UpdateTierApply(Load(ns, c).Tiers, name, updates, cg, apiUp))

TierService_DeleteTier(name, ns, c) ==
    LoadApplySave(ns, c, Load(ns, c), DeleteTierApply(Load(ns, c).Tiers, name))

TierService_AddGroup(tierName, groupName, ns, c, cg, apiUp) ==
    IF AddGroupCheck(groupName, cg, apiUp) # "ok"
    THEN SaveResult(AddGroupCheck(groupName, cg, apiUp), c, FALSE)
    ELSE LoadApplySave(ns, c, Load(ns, c),
                       AddGroupApply(Load(ns, c).Tiers, tierName, groupName))

TierService_RemoveGroup(tierName, groupName, ns, c) ==
    IF RemoveGroupCheck(groupName) # "ok"
    THEN SaveResult(RemoveGroupCheck(groupName), c, FALSE)
    ELSE LoadApplySave(ns, c, Load(ns, c),
                       RemoveGroupApply(Load(ns, c).Tiers, tierName, groupName))

\* what a read returns: the error, or the result
Returned(err, result) == [err |-> err, result |-> result]

\* storage.GetUserGroups: the groups the identity store lists the user in;
\* a user in no group is not found
GetUserGroups(username, memberships) ==
    IF memberships = {} THEN Returned("ErrUserNotFound", {})
    ELSE Returned("ok", memberships)

UserTier(name, description, level, groups) ==
    [Name |-> name, Description |-> description, Level |-> level,
     Groups |-> groups]

\* MatchingGroups that returns the whole list of the tier when the user is in
\* one of its groups
MatchingGroups_WholeList(groups, userGroups) ==
    IF \E i \in 1..Len(groups) : groups[i] \in userGroups THEN groups ELSE <<>>

\* GetTiersForUser, the inner loop: the groups of the tier the user is in
MatchingGroups(groups, userGroups) ==
    LET Member(g) == g \in userGroups IN SelectSeq(groups, Member)

\* GetTiersForUser, the outer loop: a UserTier for each tier with a match
RECURSIVE UserTiersOf(_, _)
UserTiersOf(tiers, userGroups) ==
    IF tiers = <<>> THEN <<>>
    ELSE LET t == Head(tiers)
             m == MatchingGroups(t.Groups, userGroups)
         IN  (IF Len(m) > 0
              THEN <<UserTier(t.Name, t.Description, t.Level, m)>> ELSE <<>>)
             \o UserTiersOf(Tail(tiers), userGroups)

\* BubbleInner that also swaps two tiers of the same level
RECURSIVE BubbleInner_SwapEqual(_, _, _)
BubbleInner_SwapEqual(s, j, n) ==
    IF j > n THEN s
    ELSE BubbleInner_SwapEqual(
             IF s[j].Level >= s[j + 1].Level
             THEN [s EXCEPT ![j] = s[j + 1], ![j + 1] = s[j]] ELSE s,
             j + 1, n)

\* the inner loop of the sort: j runs over the first n positions
RECURSIVE BubbleInner(_, _, _)
BubbleInner(s, j, n) ==
    IF j > n THEN s
    ELSE BubbleInner(
             IF s[j].Level > s[j + 1].Level
             THEN [s EXCEPT ![j] = s[j + 1], ![j + 1] = s[j]] ELSE s,
             j + 1, n)

\* the outer loop of the sort: i runs from 0 while i < len - 1
RECURSIVE BubbleOuter(_, _)
BubbleOuter(s, i) ==
    IF i >= Len(s) - 1 THEN s
    ELSE BubbleOuter(BubbleInner(s, 1, Len(s) - i - 1), i + 1)

\* TierService.GetTiersForUser
TierService_GetTiersForUser(username, memberships, ns, c) ==
    IF username = "" THEN Returned("ErrUserRequired", <<>>)
    ELSE IF GetUserGroups(username, memberships).err # "ok"
    THEN Returned(GetUserGroups(username, memberships).err, <<>>)
    ELSE IF Load(ns, c).err # "ok" THEN Returned(Load(ns, c).err, <<>>)
    ELSE Returned("ok",
                  BubbleOuter(UserTiersOf(Load(ns, c).Tiers,
                                          GetUserGroups(username, memberships).result),
                              0))

----------------------------------------------------------------------------
\* Workload tier association (internal/models/llminferenceservice.go, the
\* LLMInferenceService part of internal/storage, and
\* internal/service/llminferenceservice.go).  The value of the tiers
\* annotation of a workload is absent, the empty string, a text that is not a
\* JSON list of strings, or a JSON list of tier names; others is the set of
\* the other annotation keys of the workload.

NoAnnotation ==
    [present |-> FALSE, blank |-> FALSE, valid |-> TRUE, tiers |-> <<>>,
     others |-> {}]
BlankAnnotation ==
    [present |-> TRUE, blank |-> TRUE, valid |-> TRUE, tiers |-> <<>>,
     others |-> {}]
MalformedAnnotation ==
    [present |-> TRUE, blank |-> FALSE, valid |-> FALSE, tiers |-> <<>>,
     others |-> {}]
Annotation(tiers) ==
    [present |-> TRUE, blank |-> FALSE, valid |-> TRUE, tiers |-> tiers,
     others |-> {}]

\* the namespaces of the cluster and the workloads in them, in the order the
\* API server lists them
Namespaces == {"ns1", "ns2"}
WorkloadList ==
    << [Namespace |-> "ns1", Name |-> "model-a"],
       [Namespace |-> "ns2", Name |-> "model-b"] >>
Key(namespace, name) == namespace \o "/" \o name
Workloads ==
    {Key(WorkloadList[i].Namespace, WorkloadList[i].Name) :
        i \in 1..Len(WorkloadList)}

Parsed(err, tiers) == [err |-> err, tiers |-> tiers]

ParseTiersFromAnnotation(annotationValue) ==
    IF annotationValue.blank THEN Parsed("ok", <<>>)
    ELSE IF ~annotationValue.valid THEN Parsed("ErrParse", <<>>)
    ELSE Parsed("ok", annotationValue.tiers)

\* AddTierToList without the search for the name
AddTierToList_Append(tiers, tierName) == Append(tiers, tierName)

AddTierToList(tiers, tierName) ==
    IF IndexOf(tiers, tierName) # 0 THEN tiers ELSE Append(tiers, tierName)

FormatTiersAnnotation(tiers) == Annotation(tiers)

Removed(tiers, found) == [tiers |-> tiers, found |-> found]

\* RemoveTierFromList that removes the last entry when the name is found
RemoveTierFromList_DropLast(tiers, tierName) ==
    IF IndexOf(tiers, tierName) = 0 THEN Removed(tiers, FALSE)
    ELSE Removed(SubSeq(tiers, 1, Len(tiers) - 1), TRUE)

RemoveTierFromList(tiers, tierName) ==
    IF IndexOf(tiers, tierName) = 0 THEN Removed(tiers, FALSE)
    ELSE Removed(RemoveAt(tiers, IndexOf(tiers, tierName)), TRUE)

NamespaceExists(namespace) == namespace \in Namespaces

\* the start of UpdateLLMInferenceServiceAnnotation and of
\* RemoveLLMInferenceServiceAnnotation: the namespace, then the Get
GetLLMInferenceService(namespace, name) ==
    IF ~NamespaceExists(namespace) THEN "ErrNamespaceNotFound"
    ELSE IF Key(namespace, name) \notin Workloads
    THEN "ErrLLMInferenceServiceNotFound"
    ELSE "ok"

Changed(err, value) == [err |-> err, value |-> value]

\* UpdateLLMInferenceServiceAnnotation that sends a map of annotations
\* holding the tiers key only
UpdatedAnnotation_NewMap(annotationValue, tierName) ==
    FormatTiersAnnotation(
        AddTierToList(IF ParseTiersFromAnnotation(annotationValue).err = "ok"
                      THEN ParseTiersFromAnnotation(annotationValue).tiers
                      ELSE <<>>,
                      tierName))

\* UpdateLLMInferenceServiceAnnotation between its Get and its Update: the
\* annotations it writes, from the annotations it read; the tiers key is set
\* in the map that was read
UpdatedAnnotation(annotationValue, tierName) ==
    LET existingTiers ==
            IF annotationValue.present /\ ~annotationValue.blank
               /\ ParseTiersFromAnnotation(annotationValue).err = "ok"
            THEN ParseTiersFromAnnotation(annotationValue).tiers
            ELSE <<>>
    IN  [FormatTiersAnnotation(AddTierToList(existingTiers, tierName))
           EXCEPT !.others = annotationValue.others]

\* RemoveLLMInferenceServiceAnnotation between its Get and its Update
RemovedAnnotation(annotationValue, tierName) ==
    IF ~annotationValue.present \/ annotationValue.blank
    THEN Changed("ErrTierNotFoundInAnnotation", annotationValue)
    ELSE IF ParseTiersFromAnnotation(annotationValue).err # "ok"
    THEN Changed(ParseTiersFromAnnotation(annotationValue).err, annotationValue)
    ELSE IF ~RemoveTierFromList(annotationValue.tiers, tierName).found
    THEN Changed("ErrTierNotFoundInAnnotation", annotationValue)
    ELSE Changed("ok",
                 [FormatTiersAnnotation(
                      RemoveTierFromList(annotationValue.tiers, tierName).tiers)
                    EXCEPT !.others = annotationValue.others])

WorkloadResult(err, wl) == [err |-> err, workloads |-> wl]

\* the Get, the change and the Update, with no other request between the Get
\* and the Update
UpdateLLMInferenceServiceAnnotation(namespace, name, tierName, wl) ==
    IF GetLLMInferenceService(namespace, name) # "ok"
    THEN WorkloadResult(GetLLMInferenceService(namespace, name), wl)
    ELSE WorkloadResult("ok",
            [wl EXCEPT ![Key(namespace, name)] =
                UpdatedAnnotation(wl[Key(namespace, name)], tierName)])

RemoveLLMInferenceServiceAnnotation(namespace, name, tierName, wl) ==
    IF GetLLMInferenceService(namespace, name) # "ok"
    THEN WorkloadResult(GetLLMInferenceService(namespace, name), wl)
    ELSE IF RemovedAnnotation(wl[Key(namespace, name)], tierName).err # "ok"
    THEN WorkloadResult(RemovedAnnotation(wl[Key(namespace, name)], tierName).err, wl)
    ELSE WorkloadResult("ok",
            [wl EXCEPT ![Key(namespace, name)] =
                RemovedAnnotation(wl[Key(namespace, name)], tierName).value])

\* TierService.GetTier
TierService_GetTier(name, ns, c) ==
    IF Load(ns, c).err # "ok" THEN Load(ns, c).err
    ELSE IF FindTier(Load(ns, c).Tiers, name) = 0 THEN "ErrTierNotFound"
    ELSE "ok"

\* AnnotateCheck without the lookup of the tier
AnnotateCheck_NoLookup(namespace, name, tierName, ns, c) ==
    IF namespace = "" THEN "ErrNamespaceRequired"
    ELSE IF name = "" THEN "ErrNameRequired"
    ELSE IF tierName = <<>> THEN "ErrTierNameRequired"
    ELSE "ok"

\* the checks of AnnotateLLMInferenceServiceWithTier before the storage call
AnnotateCheck(namespace, name, tierName, ns, c) ==
    IF namespace = "" THEN "ErrNamespaceRequired"
    ELSE IF name = "" THEN "ErrNameRequired"
    ELSE IF tierName = <<>> THEN "ErrTierNameRequired"
    ELSE TierService_GetTier(tierName, ns, c)

\* the checks of RemoveTierFromLLMInferenceService before the storage call
RemoveTierCheck(namespace, name, tierName) ==
    IF namespace = "" THEN "ErrNamespaceRequired"
    ELSE IF name = "" THEN "ErrNameRequired"
    ELSE IF tierName = <<>> THEN "ErrTierNameRequired"
    ELSE "ok"

AnnotateLLMInferenceServiceWithTier(namespace, name, tierName, ns, c, wl) ==
    IF AnnotateCheck(namespace, name, tierName, ns, c) # "ok"
    THEN WorkloadResult(AnnotateCheck(namespace, name, tierName, ns, c), wl)
    ELSE UpdateLLMInferenceServiceAnnotation(namespace, name, tierName, wl)

RemoveTierFromLLMInferenceService(namespace, name, tierName, wl) ==
    IF RemoveTierCheck(namespace, name, tierName) # "ok"
    THEN WorkloadResult(RemoveTierCheck(namespace, name, tierName), wl)
    ELSE RemoveLLMInferenceServiceAnnotation(namespace, name, tierName, wl)

\* ListLLMInferenceServices: every workload of every namespace with its
\* annotation, or the error of the List call
ListLLMInferenceServices(listUp, wl) ==
    IF ~listUp THEN Returned("ErrList", <<>>)
    ELSE Returned("ok",
            [i \in 1..Len(WorkloadList) |->
                [Namespace |-> WorkloadList[i].Namespace,
                 Name |-> WorkloadList[i].Name,
                 Annotation |->
                    wl[Key(WorkloadList[i].Namespace, WorkloadList[i].Name)]]])

\* HasTierAnnotation that keeps every workload annotated with some tier
HasTierAnnotation_AnyTier(service, tierName) ==
    /\ service.Annotation.present
    /\ ~service.Annotation.blank
    /\ ParseTiersFromAnnotation(service.Annotation).err = "ok"
    /\ ParseTiersFromAnnotation(service.Annotation).tiers # <<>>

\* the loop body of storage.GetLLMInferenceServicesByTier: the workload is kept
HasTierAnnotation(service, tierName) ==
    /\ service.Annotation.present
    /\ ~service.Annotation.blank
    /\ ParseTiersFromAnnotation(service.Annotation).err = "ok"
    /\ IndexOf(ParseTiersFromAnnotation(service.Annotation).tiers, tierName) # 0

\* storage.GetLLMInferenceServicesByTier
GetLLMInferenceServicesByTier(tierName, listUp, wl) ==
    IF ListLLMInferenceServices(listUp, wl).err # "ok"
    THEN ListLLMInferenceServices(listUp, wl)
    ELSE LET Match(service) == HasTierAnnotation(service, tierName)
         IN  Returned("ok",
                      SelectSeq(ListLLMInferenceServices(listUp, wl).result, Match))

convertUnstructuredToLLMInferenceService(obj) ==
    [Name |-> obj.Name, Namespace |-> obj.Namespace,
     Tiers |-> IF obj.Annotation.present /\ ~obj.Annotation.blank
                  /\ ParseTiersFromAnnotation(obj.Annotation).err = "ok"
               THEN ParseTiersFromAnnotation(obj.Annotation).tiers
               ELSE <<>>]

\* LLMInferenceServiceService.GetLLMInferenceServicesByTier
LLMInferenceServiceService_GetLLMInferenceServicesByTier(tierName, listUp, wl) ==
    IF GetLLMInferenceServicesByTier(tierName, listUp, wl).err # "ok"
    THEN Returned(GetLLMInferenceServicesByTier(tierName, listUp, wl).err, <<>>)
    ELSE Returned("ok",
            [i \in 1..Len(GetLLMInferenceServicesByTier(tierName, listUp, wl).result) |->
                convertUnstructuredToLLMInferenceService(
                    GetLLMInferenceServicesByTier(tierName, listUp, wl).result[i])])

\* TierService.GetTiersByGroup
TierService_GetTiersByGroup(groupName, ns, c) ==
    IF ValidateGroupName(groupName) # "ok"
    THEN Returned(ValidateGroupName(groupName), <<>>)
    ELSE IF Load(ns, c).err # "ok" THEN Returned(Load(ns, c).err, <<>>)
    ELSE LET Lists(tier) == IndexOf(tier.Groups, groupName) # 0
         IN  Returned("ok", SelectSeq(Load(ns, c).Tiers, Lists))

\* serviceMap[key] = service that adds an entry even when the key has one
PutService_NoDedup(serviceMap, service) ==
    Append(serviceMap,
           [key |-> Key(service.Namespace, service.Name), service |-> service])

\* serviceMap[key] = service, the map being the list of its entries
PutService(serviceMap, service) ==
    LET key == Key(service.Namespace, service.Name)
    IN  IF \E i \in 1..Len(serviceMap) : serviceMap[i].key = key
        THEN [i \in 1..Len(serviceMap) |->
                IF serviceMap[i].key = key
                THEN [key |-> key, service |-> service] ELSE serviceMap[i]]
        ELSE Append(serviceMap, [key |-> key, service |-> service])

RECURSIVE PutServices(_, _)
PutServices(serviceMap, services) ==
    IF services = <<>> THEN serviceMap
    ELSE PutServices(PutService(serviceMap, Head(services)), Tail(services))

\* GetLLMInferenceServicesByGroup, the loop over the tiers of the group:
\* failing are the tiers whose listing fails
RECURSIVE CollectServices(_, _, _, _)
CollectServices(tiers, failing, wl, serviceMap) ==
    IF tiers = <<>> THEN serviceMap
    ELSE LET listed == LLMInferenceServiceService_GetLLMInferenceServicesByTier(
                           Head(tiers).Name, Head(tiers).Name \notin failing, wl)
         IN  CollectServices(Tail(tiers), failing, wl,
                             IF listed.err # "ok" THEN serviceMap
                             ELSE PutServices(serviceMap, listed.result))

\* the orders in which a range over a Go map can visit its entries
MapOrders(serviceMap) ==
    {order \in [1..Len(serviceMap) -> 1..Len(serviceMap)] :
        \A i, j \in 1..Len(serviceMap) : order[i] = order[j] => i = j}

\* LLMInferenceServiceService.GetLLMInferenceServicesByGroup: every result the
\* call can return
GetLLMInferenceServicesByGroup(groupName, failing, ns, c, wl) ==
    IF TierService_GetTiersByGroup(groupName, ns, c).err # "ok"
    THEN {Returned(TierService_GetTiersByGroup(groupName, ns, c).err, <<>>)}
    ELSE LET serviceMap ==
                CollectServices(TierService_GetTiersByGroup(groupName, ns, c).result,
                                failing, wl, <<>>)
         IN  {Returned("ok", [i \in 1..Len(serviceMap) |->
                                 serviceMap[order[i]].service]) :
                 order \in MapOrders(serviceMap)}

----------------------------------------------------------------------------
\* HTTP handlers (internal/api/handlers.go): what they do to the request
\* before they call the service.

TierHandler_CreateTier(tier, ns, c, cg, apiUp) ==
    LET t == IF tier.GroupsNil
             THEN [tier EXCEPT !.Groups = <<>>, !.GroupsNil = FALSE] ELSE tier
    IN  IF t.Name = <<>> THEN SaveResult("ErrTierNameRequired", c, FALSE)
        ELSE IF t.Description = ""
        THEN SaveResult("ErrTierDescriptionRequired", c, FALSE)
        ELSE TierService_CreateTier(t, ns, c, cg, apiUp)

\* TierHandler_UpdateTier without the check of the name of the body
TierHandler_UpdateTier_NoNameCheck(name, updates, ns, c, cg, apiUp) ==
    TierService_UpdateTier(name, [updates EXCEPT !.Name = name], ns, c, cg, apiUp)

TierHandler_UpdateTier(name, updates, ns, c, cg, apiUp) ==
    IF updates.Name # <<>> /\ updates.Name # name
    THEN SaveResult("ErrTierNameImmutable", c, FALSE)
    ELSE TierService_UpdateTier(name, [updates EXCEPT !.Name = name],
                                ns, c, cg, apiUp)

TierHandler_DeleteTier(name, ns, c) == TierService_DeleteTier(name, ns, c)

\* AddGroupRequest.Group is binding:"required": an empty group does not bind
TierHandler_AddGroup(tierName, group, ns, c, cg, apiUp) ==
    IF group = <<>> THEN SaveResult("BindingError", c, FALSE)
    ELSE TierService_AddGroup(tierName, group, ns, c, cg, apiUp)

TierHandler_RemoveGroup(tierName, groupName, ns, c) ==
    TierService_RemoveGroup(tierName, groupName, ns, c)

----------------------------------------------------------------------------
\* Requests.  A request is handled in one step when nothing runs beside it;
\* Respond hands the response to the client, and the next request starts.

\* tier names of request paths and bodies: "a" and "b" satisfy the
\* validator's grammar, "A" does not, "x" is the name of no tier
NameA == <<"a">>
NameB == <<"b">>
NameUpper == <<"A">>
NameX == <<"x">>

\* group names of requests: the built-in group, a group of the cluster, a
\* name the validator rejects
GroupG == <<"g">>
GroupUpper == <<"G">>
ClusterGroupNames == {GroupG}
GroupInputs == {SystemAuthenticatedGroup, GroupG, GroupUpper}

\* the group lists of request bodies, up to n groups
GroupLists(n) == UNION {[1..k -> GroupInputs] : k \in 0..n}

\* the empty list and the lists of one group
SingleGroupLists == {<<>>} \cup {<<g>> : g \in GroupInputs}

\* request bodies: with a groups field, and without one (a nil slice)
Bodies(names, descriptions, levels, lists) ==
    {Tier(n, d, l, g, FALSE) :
        n \in names, d \in descriptions, l \in levels, g \in lists}
    \cup {Tier(n, d, l, <<>>, TRUE) :
            n \in names, d \in descriptions, l \in levels}

\* the lookup of a Group object is only made for a name that is not built in
LookupOutcomes(groups) ==
    IF \E i \in 1..Len(groups) : groups[i] # SystemAuthenticatedGroup
    THEN BOOLEAN ELSE {TRUE}

\* a response records the request it answers and the ConfigMap and the
\* annotations as they were when the request arrived
NoBody == Tier(<<>>, "", 0, <<>>, TRUE)

NoCall == [op |-> "none", name |-> <<>>, group |-> <<>>, body |-> NoBody,
           apiUp |-> TRUE, err |-> "ok", wrote |-> FALSE, before |-> AbsentCM,
           wbefore |-> [w \in Workloads |-> NoAnnotation],
           arg |-> {}, result |-> <<>>]
Response(op, name, group, body, apiUp, out) ==
    [op |-> op, name |-> name, group |-> group, body |-> body,
     apiUp |-> apiUp, err |-> out.err, wrote |-> out.wrote, before |-> cm,
     wbefore |-> workloads, arg |-> {}, result |-> <<>>]

\* the response of a request that only reads: arg is what the cluster
\* answered during the request, result is what the request returns
Answer(op, name, group, arg, out) ==
    [op |-> op, name |-> name, group |-> group, body |-> NoBody,
     apiUp |-> TRUE, err |-> out.err, wrote |-> FALSE, before |-> cm,
     wbefore |-> workloads, arg |-> arg, result |-> out.result]

Idle == last.op = "none"

\* the requests that run beside each other: where each one is (idle, loaded,
\* got, done), what it loaded, what it is about to save, whether the object
\* has changed since its Get, and whether another request got the object in
\* the same version
Procs == {"p1", "p2"}
IdleProc == [pc |-> "idle", op |-> "none", name |-> <<>>, group |-> <<>>,
             err |-> "ok", snapshot |-> <<>>, tiers |-> <<>>, stale |-> FALSE,
             together |-> FALSE]

\* a ConfigMap that exists with no data at all
EmptyCM == [exists |-> TRUE, dataNil |-> TRUE, keys |-> {}, tiers |-> BlankText]

InitStore ==
    /\ nsExists \in BOOLEAN
    /\ cm \in IF nsExists THEN {AbsentCM, EmptyCM} ELSE {AbsentCM}
    /\ workloads = [w \in Workloads |-> Annotation(<<NameA>>)]
    /\ last = NoCall
    /\ procs = [p \in Procs |-> IdleProc]

ReqCreateTier(tier, apiUp) ==
    /\ Idle
    /\ \E out \in {TierHandler_CreateTier(tier, nsExists, cm, clusterGroups, apiUp)} :
           /\ cm' = out.cm
           /\ last' = Response("createTier", tier.Name, <<>>, tier, apiUp, out)
    /\ UNCHANGED <<nsExists, clusterGroups, workloads, procs>>

ReqUpdateTier(name, updates, apiUp) ==
    /\ Idle
    /\ \E out \in {TierHandler_UpdateTier(name, updates, nsExists, cm,
                                          clusterGroups, apiUp)} :
           /\ cm' = out.cm
           /\ last' = Response("updateTier", name, <<>>, updates, apiUp, out)
    /\ UNCHANGED <<nsExists, clusterGroups, workloads, procs>>

ReqDeleteTier(name) ==
    /\ Idle
    /\ \E out \in {TierHandler_DeleteTier(name, nsExists, cm)} :
           /\ cm' = out.cm
           /\ last' = Response("deleteTier", name, <<>>, NoBody, TRUE, out)
    /\ UNCHANGED <<nsExists, clusterGroups, workloads, procs>>

ReqAddGroup(tierName, group, apiUp) ==
    /\ Idle
    /\ \E out \in {TierHandler_AddGroup(tierName, group, nsExists, cm,
                                        clusterGroups, apiUp)} :
           /\ cm' = out.cm
           /\ last' = Response("addGroup", tierName, group, NoBody, apiUp, out)
    /\ UNCHANGED <<nsExists, clusterGroups, workloads, procs>>

ReqRemoveGroup(tierName, groupName) ==
    /\ Idle
    /\ \E out \in {TierHandler_RemoveGroup(tierName, groupName, nsExists, cm)} :
           /\ cm' = out.cm
           /\ last' = Response("removeGroup", tierName, groupName, NoBody, TRUE, out)
    /\ UNCHANGED <<nsExists, clusterGroups, workloads, procs>>

Respond ==
    /\ ~Idle
    /\ last' = NoCall
    /\ UNCHANGED <<nsExists, cm, clusterGroups, workloads, procs>>

\* the cluster's administrators create and delete Group objects
GroupCreated(g) ==
    /\ Idle
    /\ g \notin clusterGroups
    /\ clusterGroups' = clusterGroups \cup {g}
    /\ UNCHANGED <<nsExists, cm, workloads, last, procs>>

GroupDeleted(g) ==
    /\ Idle
    /\ g \in clusterGroups
    /\ clusterGroups' = clusterGroups \ {g}
    /\ UNCHANGED <<nsExists, cm, workloads, last, procs>>

\* the requests of the Tier Service with bodies drawn from `bodies`, paths
\* from `paths` and group parameters from `groups`
TierRequests(bodies, paths, groups) ==
    \/ \E tier \in bodies :
        \E apiUp \in LookupOutcomes(tier.Groups) : ReqCreateTier(tier, apiUp)
    \/ \E name \in paths, updates \in bodies :
        \E apiUp \in LookupOutcomes(updates.Groups) :
            ReqUpdateTier(name, updates, apiUp)
    \/ \E name \in paths : ReqDeleteTier(name)
    \/ \E tierName \in paths, group \in groups \cup {<<>>} :
        \E apiUp \in LookupOutcomes(<<group>>) :
            ReqAddGroup(tierName, group, apiUp)
    \/ \E tierName \in paths, groupName \in groups :
        ReqRemoveGroup(tierName, groupName)

----------------------------------------------------------------------------
\* Spec: two tier names and every combination of the fields of a tier, with
\* at most one group in a request body; no Group object exists in the cluster.

Init == InitStore /\ clusterGroups = {}

Next ==
    \/ TierRequests(Bodies({<<>>, NameA, NameUpper}, {"", "d", "e"},
                           (-1)..MaxLevel, SingleGroupLists),
                    {NameA, NameUpper}, GroupInputs)
    \/ Respond

Spec == Init /\ [][Next]_vars

----------------------------------------------------------------------------
\* SpecGroups: two tier names with one description and one level, longer
\* group lists, and Group objects that come and go.

InitGroups == InitStore /\ clusterGroups \in SUBSET ClusterGroupNames

NextGroups ==
    \/ TierRequests(Bodies({NameA, NameUpper}, {"d"}, {0},
                           GroupLists(MaxGroupList)),
                    {NameA, NameUpper}, GroupInputs)
    \/ Respond
    \/ \E g \in ClusterGroupNames : GroupCreated(g)
    \/ \E g \in ClusterGroupNames : GroupDeleted(g)

SpecGroups == InitGroups /\ [][NextGroups]_vars

----------------------------------------------------------------------------
\* SpecWide: three tier names, so that a tier has tiers before and after it.

NextWide ==
    \/ TierRequests(Bodies({NameA, NameB, NameUpper}, {"d"}, 0..MaxLevel,
                           {<<SystemAuthenticatedGroup>>}),
                    {NameA, NameB, NameUpper, NameX},
                    {SystemAuthenticatedGroup})
    \/ Respond

SpecWide == Init /\ [][NextWide]_vars

----------------------------------------------------------------------------
\* SpecConc: two requests at a time.  A request validates, loads and changes
\* the loaded list in one step (only the load touches the ConfigMap); the Get
\* and the Create or Update of Save are steps of their own, and the other
\* request may run between any two of them.  The API server refuses an Update
\* whose ConfigMap has changed since the Get, and a Create of a ConfigMap
\* that has appeared since the Get.

\* a service call up to the save: the error, or the list loaded and the list
\* to save
Prepare(check, loaded, applied) ==
    IF check # "ok" THEN [err |-> check, snapshot |-> <<>>, tiers |-> <<>>]
    ELSE IF loaded.err # "ok"
    THEN [err |-> loaded.err, snapshot |-> <<>>, tiers |-> <<>>]
    ELSE IF applied.err # "ok"
    THEN [err |-> applied.err, snapshot |-> <<>>, tiers |-> <<>>]
    ELSE [err |-> "ok", snapshot |-> loaded.Tiers, tiers |-> applied.Tiers]

Started(p, op, name, group, prep) ==
    procs' = [procs EXCEPT ![p] =
                [pc |-> IF prep.err = "ok" THEN "loaded" ELSE "done",
                 op |-> op, name |-> name, group |-> group, err |-> prep.err,
                 snapshot |-> prep.snapshot, tiers |-> prep.tiers,
                 stale |-> FALSE]]

ConcCreateTier(p, tier) ==
    /\ procs[p].pc = "idle"
    /\ Started(p, "createTier", tier.Name, <<>>,
               Prepare(CreateTierCheck(tier, clusterGroups, TRUE),
                       Load(nsExists, cm),
                       CreateTierApply(Load(nsExists, cm).Tiers, tier)))
    /\ UNCHANGED <<nsExists, cm, clusterGroups, workloads, last>>

ConcUpdateTier(p, name, updates) ==
    /\ procs[p].pc = "idle"
    /\ Started(p, "updateTier", name, <<>>,
               Prepare("ok", Load(nsExists, cm),
                       UpdateTierApply(Load(nsExists, cm).Tiers, name,
                                       [updates EXCEPT !.Name = name],
                                       clusterGroups, TRUE)))
    /\ UNCHANGED <<nsExists, cm, clusterGroups, workloads, last>>

ConcDeleteTier(p, name) ==
    /\ procs[p].pc = "idle"
    /\ Started(p, "deleteTier", name, <<>>,
               Prepare("ok", Load(nsExists, cm),
                       DeleteTierApply(Load(nsExists, cm).Tiers, name)))
    /\ UNCHANGED <<nsExists, cm, clusterGroups, workloads, last>>

ConcAddGroup(p, tierName, groupName) ==
    /\ procs[p].pc = "idle"
    /\ Started(p, "addGroup", tierName, groupName,
               Prepare(AddGroupCheck(groupName, clusterGroups, TRUE),
                       Load(nsExists, cm),
                       AddGroupApply(Load(nsExists, cm).Tiers, tierName, groupName)))
    /\ UNCHANGED <<nsExists, cm, clusterGroups, workloads, last>>

ConcRemoveGroup(p, tierName, groupName) ==
    /\ procs[p].pc = "idle"
    /\ Started(p, "removeGroup", tierName, groupName,
               Prepare(RemoveGroupCheck(groupName), Load(nsExists, cm),
                       RemoveGroupApply(Load(nsExists, cm).Tiers, tierName,
                                        groupName)))
    /\ UNCHANGED <<nsExists, cm, clusterGroups, workloads, last>>

\* Save, to the Get of the ConfigMap
ConcSaveGet(p) ==
    /\ procs[p].pc = "loaded"
    /\ procs' = [procs EXCEPT ![p].pc = "got", ![p].stale = FALSE]
    /\ UNCHANGED <<nsExists, cm, clusterGroups, workloads, last>>

\* Save, the Create or the Update: a write that changes the ConfigMap makes
\* stale what the other requests got
ConcSaveWrite(p) ==
    /\ procs[p].pc = "got"
    /\ \E out \in {IF procs[p].stale THEN SaveResult("SaveConflict", cm, FALSE)
                   ELSE Save(nsExists, cm, procs[p].tiers)} :
          /\ cm' = out.cm
          /\ procs' = [q \in Procs |->
                          IF q = p
                          THEN [procs[p] EXCEPT !.pc = "done", !.err = out.err]
                          ELSE IF procs[q].pc = "got" /\ out.cm # cm
                          THEN [procs[q] EXCEPT !.stale = TRUE]
                          ELSE procs[q]]
    /\ UNCHANGED <<nsExists, clusterGroups, workloads, last>>

\* the response is written and the goroutine ends
ConcReturn(p) ==
    /\ procs[p].pc = "done"
    /\ procs' = [procs EXCEPT ![p] = IdleProc]
    /\ UNCHANGED <<nsExists, cm, clusterGroups, workloads, last>>

\* the requests of SpecConc: two tier names, one description and level, the
\* built-in group; updateTier sends an explicit empty list of groups
ConcNames == {NameA, NameB}
ConcBody(name) == Tier(name, "d", 0, <<>>, FALSE)

NextConc ==
    \/ \E p \in Procs, name \in ConcNames : ConcCreateTier(p, ConcBody(name))
    \/ \E p \in Procs, name \in ConcNames : ConcUpdateTier(p, name, ConcBody(name))
    \/ \E p \in Procs, name \in ConcNames : ConcDeleteTier(p, name)
    \/ \E p \in Procs, name \in ConcNames :
          ConcAddGroup(p, name, SystemAuthenticatedGroup)
    \/ \E p \in Procs, name \in ConcNames :
          ConcRemoveGroup(p, name, SystemAuthenticatedGroup)
    \/ \E p \in Procs : ConcSaveGet(p)
    \/ \E p \in Procs : ConcSaveWrite(p)
    \/ \E p \in Procs : ConcReturn(p)

SpecConc == Init /\ [][NextConc]_vars

----------------------------------------------------------------------------
\* SpecRead: a registry of up to three tiers, each with a level and one or
\* two groups, and the resolution of the tiers of a user.

\* a group no tier of SpecRead lists
GroupH == <<"h">>

Usernames == {"", "u"}
Memberships == SUBSET {SystemAuthenticatedGroup, GroupG, GroupH}

ReqGetTiersForUser(username, memberships) ==
    /\ Idle
    /\ last' = Answer("getTiersForUser", <<>>, <<>>, memberships,
                      TierService_GetTiersForUser(username, memberships,
                                                  nsExists, cm))
    /\ UNCHANGED <<nsExists, cm, clusterGroups, workloads, procs>>

ReadNames == {NameA, NameB, NameX}
ReadGroupLists ==
    {<<SystemAuthenticatedGroup>>, <<GroupG>>, <<SystemAuthenticatedGroup, GroupG>>}
ReadBodies ==
    {Tier(n, "d", l, g, FALSE) :
        n \in ReadNames, l \in 0..MaxLevel, g \in ReadGroupLists}

InitRead == InitStore /\ clusterGroups = ClusterGroupNames

NextRead ==
    \/ \E tier \in ReadBodies : ReqCreateTier(tier, TRUE)
    \/ \E name \in ReadNames : ReqDeleteTier(name)
    \/ \E username \in Usernames, memberships \in Memberships :
          ReqGetTiersForUser(username, memberships)
    \/ Respond

SpecRead == InitRead /\ [][NextRead]_vars

----------------------------------------------------------------------------
\* SpecAnn: a registry of up to two tiers and the tiers annotation of two
\* workloads in two namespaces.  The annotations start as the cluster can
\* have them before the program first writes one: absent, empty, or a text
\* that is not a list.

\* the response of annotate and removeTier: arg is the workload it names
Outcome(op, namespace, name, tierName, out) ==
    [op |-> op, name |-> tierName, group |-> <<>>, body |-> NoBody,
     apiUp |-> TRUE, err |-> out.err, wrote |-> out.workloads # workloads,
     before |-> cm, wbefore |-> workloads, arg |-> <<namespace, name>>,
     result |-> <<>>]

ReqAnnotate(namespace, name, tierName) ==
    /\ Idle
    /\ \E out \in {AnnotateLLMInferenceServiceWithTier(namespace, name, tierName,
                                                       nsExists, cm, workloads)} :
           /\ workloads' = out.workloads
           /\ last' = Outcome("annotate", namespace, name, tierName, out)
    /\ UNCHANGED <<nsExists, cm, clusterGroups, procs>>

ReqRemoveTier(namespace, name, tierName) ==
    /\ Idle
    /\ \E out \in {RemoveTierFromLLMInferenceService(namespace, name, tierName,
                                                     workloads)} :
           /\ workloads' = out.workloads
           /\ last' = Outcome("removeTier", namespace, name, tierName, out)
    /\ UNCHANGED <<nsExists, cm, clusterGroups, procs>>

\* listByTier: arg is the set of tiers whose listing failed
ReqListByTier(tierName, listUp) ==
    /\ Idle
    /\ last' = Answer("listByTier", tierName, <<>>,
                      IF listUp THEN {} ELSE {tierName},
                      LLMInferenceServiceService_GetLLMInferenceServicesByTier(
                          tierName, listUp, workloads))
    /\ UNCHANGED <<nsExists, cm, clusterGroups, workloads, procs>>

ReqListByGroup(groupName, failing) ==
    /\ Idle
    /\ \E out \in GetLLMInferenceServicesByGroup(groupName, failing, nsExists,
                                                 cm, workloads) :
           last' = Answer("listByGroup", <<>>, groupName, failing, out)
    /\ UNCHANGED <<nsExists, cm, clusterGroups, workloads, procs>>

AnnNames == {NameA, NameB}
AnnBodies ==
    {Tier(n, "d", 0, g, FALSE) :
        n \in AnnNames, g \in {<<SystemAuthenticatedGroup>>, <<GroupG>>}}
AnnNamespaces == {"", "ns1", "ns2", "ns9"}
AnnWorkloadNames == {"", "model-a", "model-b"}
AnnTierInputs == {<<>>, NameA, NameB}
AnnGroupInputs == {SystemAuthenticatedGroup, GroupG, GroupUpper}

InitAnn ==
    /\ nsExists \in BOOLEAN
    /\ cm \in IF nsExists THEN {AbsentCM, EmptyCM} ELSE {AbsentCM}
    /\ clusterGroups = ClusterGroupNames
    /\ workloads \in
          [Workloads -> {NoAnnotation, BlankAnnotation, MalformedAnnotation}]
    /\ last = NoCall
    /\ procs = [p \in Procs |-> IdleProc]

NextAnn ==
    \/ \E tier \in AnnBodies : ReqCreateTier(tier, TRUE)
    \/ \E name \in AnnNames : ReqDeleteTier(name)
    \/ \E namespace \in AnnNamespaces, name \in AnnWorkloadNames,
          tierName \in AnnTierInputs : ReqAnnotate(namespace, name, tierName)
    \/ \E namespace \in AnnNamespaces, name \in AnnWorkloadNames,
          tierName \in AnnTierInputs : ReqRemoveTier(namespace, name, tierName)
    \/ \E tierName \in AnnNames, listUp \in BOOLEAN :
          ReqListByTier(tierName, listUp)
    \/ \E groupName \in AnnGroupInputs, failing \in SUBSET AnnNames :
          ReqListByGroup(groupName, failing)
    \/ Respond

SpecAnn == InitAnn /\ [][NextAnn]_vars

----------------------------------------------------------------------------
\* SpecConcAnn: two requests that annotate or remove a tier of the same
\* workload beside each other.  Each gets the workload, changes the annotation
\* of the object it got, and sends that object back in an Update; the object
\* carries the resourceVersion of the Get, and the API server refuses an
\* Update whose resourceVersion is not the current one.  An Update that
\* changes nothing leaves the resourceVersion as it is.

ConcNamespace == "ns1"
ConcWorkload == "model-a"

\* the request is past its checks and its Get: the annotation it read, and
\* the annotation it is about to write; together records that another request
\* holds the object in the same version
StartedAnn(p, op, tierName, err, value) ==
    LET Holding(q) == q # p /\ procs[q].pc = "got" /\ ~procs[q].stale
    IN  procs' = [q \in Procs |->
                    IF q # p
                    THEN IF err = "ok" /\ Holding(q)
                         THEN [procs[q] EXCEPT !.together = TRUE] ELSE procs[q]
                    ELSE IF err # "ok"
                    THEN [IdleProc EXCEPT !.pc = "done", !.op = op,
                                          !.name = tierName, !.err = err]
                    ELSE [IdleProc EXCEPT
                            !.pc = "got", !.op = op, !.name = tierName,
                            !.snapshot = workloads[Key(ConcNamespace, ConcWorkload)],
                            !.tiers = value,
                            !.together = \E r \in Procs : Holding(r)]]

\* AnnotateLLMInferenceServiceWithTier, to the Update
ConcAnnotate(p, tierName) ==
    /\ procs[p].pc = "idle"
    /\ StartedAnn(p, "annotate", tierName,
                  FirstError(<<AnnotateCheck(ConcNamespace, ConcWorkload, tierName,
                                             nsExists, cm),
                               GetLLMInferenceService(ConcNamespace, ConcWorkload)>>),
                  UpdatedAnnotation(workloads[Key(ConcNamespace, ConcWorkload)],
                                    tierName))
    /\ UNCHANGED <<nsExists, cm, clusterGroups, workloads, last>>

\* RemoveTierFromLLMInferenceService, to the Update
ConcRemoveTier(p, tierName) ==
    /\ procs[p].pc = "idle"
    /\ StartedAnn(p, "removeTier", tierName,
                  FirstError(<<RemoveTierCheck(ConcNamespace, ConcWorkload, tierName),
                               GetLLMInferenceService(ConcNamespace, ConcWorkload),
                               RemovedAnnotation(
                                   workloads[Key(ConcNamespace, ConcWorkload)],
                                   tierName).err>>),
                  RemovedAnnotation(workloads[Key(ConcNamespace, ConcWorkload)],
                                    tierName).value)
    /\ UNCHANGED <<nsExists, cm, clusterGroups, workloads, last>>

\* Update that the API server accepts whatever the object has become since
\* the Get
UpdateResult_Unconditional(stale, wl, value) ==
    WorkloadResult("ok", [wl EXCEPT ![Key(ConcNamespace, ConcWorkload)] = value])

\* the Update of the object that was got
UpdateResult(stale, wl, value) ==
    IF stale THEN WorkloadResult("ErrConflict", wl)
    ELSE WorkloadResult("ok", [wl EXCEPT ![Key(ConcNamespace, ConcWorkload)] = value])

\* the Update: one that changes the workload makes stale what the other
\* requests got
ConcUpdate(p) ==
    /\ procs[p].pc = "got"
    /\ \E out \in {UpdateResult(procs[p].stale, workloads, procs[p].tiers)} :
          /\ workloads' = out.workloads
          /\ procs' = [q \in Procs |->
                          IF q = p
                          THEN [procs[p] EXCEPT !.pc = "done", !.err = out.err]
                          ELSE IF procs[q].pc = "got" /\ out.workloads # workloads
                          THEN [procs[q] EXCEPT !.stale = TRUE]
                          ELSE procs[q]]
    /\ UNCHANGED <<nsExists, cm, clusterGroups, last>>

NextConcAnn ==
    \/ \E name \in ConcNames : ReqCreateTier(ConcBody(name), TRUE)
    \/ Respond
    \/ \E p \in Procs, tierName \in ConcNames : ConcAnnotate(p, tierName)
    \/ \E p \in Procs, tierName \in ConcNames : ConcRemoveTier(p, tierName)
    \/ \E p \in Procs : ConcUpdate(p)
    \/ \E p \in Procs : ConcReturn(p)

\* the other workload has never been annotated
InitConcAnn == InitAnn /\ workloads[Key("ns2", "model-b")] = NoAnnotation

SpecConcAnn == InitConcAnn /\ [][NextConcAnn]_vars

----------------------------------------------------------------------------

\* SpecRace: annotate requests beside deleteTier requests.  The annotate checks
\* the tier in the registry document and then gets and updates the workload;
\* the registry document and the workload are two objects, and a deleteTier
\* may be served between the check and the Update.

NextRace ==
    \/ \E name \in ConcNames : ReqCreateTier(ConcBody(name), TRUE)
    \/ \E name \in ConcNames : ReqDeleteTier(name)
    \/ Respond
    \/ \E p \in Procs, tierName \in ConcNames : ConcAnnotate(p, tierName)
    \/ \E p \in Procs : ConcUpdate(p)
    \/ \E p \in Procs : ConcReturn(p)

SpecRace == InitConcAnn /\ [][NextRace]_vars

----------------------------------------------------------------------------

\* SpecExt: annotate and removeTier on a workload whose annotations were
\* written outside the program: the tiers key absent, empty, a text that is
\* not a list, or a list with a name ("x") that the registry never held, and
\* the workload with or without another annotation key.

ExtNames == {NameA, NameB, <<"x">>}

InitExt ==
    /\ nsExists = TRUE
    /\ cm = AbsentCM
    /\ clusterGroups = ClusterGroupNames
    /\ \E a \in {NoAnnotation, BlankAnnotation, MalformedAnnotation,
                 Annotation(<<<<"x">>>>), Annotation(<<NameB, <<"x">>>>),
                 Annotation(<<<<"x">>, NameA>>)},
          keys \in {{}, {"app"}} :
          workloads = [w \in Workloads |->
                          IF w = Key(ConcNamespace, ConcWorkload)
                          THEN [a EXCEPT !.others = keys] ELSE NoAnnotation]
    /\ last = NoCall
    /\ procs = [p \in Procs |-> IdleProc]

NextExt ==
    \/ \E name \in ConcNames : ReqCreateTier(ConcBody(name), TRUE)
    \/ \E tierName \in ConcNames :
          ReqAnnotate(ConcNamespace, ConcWorkload, tierName)
    \/ \E tierName \in ExtNames :
          ReqRemoveTier(ConcNamespace, ConcWorkload, tierName)
    \/ Respond

SpecExt == InitExt /\ [][NextExt]_vars

----------------------------------------------------------------------------
\* SpecEdge: one tier name, group lists that repeat a group or have a name the
\* validator rejects, every kind of registry document the cluster can hold
\* before the first write, and Group lookups that may fail whatever the name.

\* the registry document: absent; present with no data; present with another
\* key only; present with an empty tiers key beside another key; present with
\* the tiers key holding the empty list
EdgeDocuments ==
    {AbsentCM, EmptyCM,
     ConfigMap(FALSE, {"other"}, BlankText),
     ConfigMap(FALSE, {"other", "tiers"}, BlankText),
     ConfigMap(FALSE, {"tiers"}, YAMLText(<<>>))}

InitEdge ==
    /\ nsExists \in BOOLEAN
    /\ cm \in IF nsExists THEN EdgeDocuments ELSE {AbsentCM}
    /\ clusterGroups \in SUBSET ClusterGroupNames
    /\ workloads = [w \in Workloads |-> NoAnnotation]
    /\ last = NoCall
    /\ procs = [p \in Procs |-> IdleProc]

NextEdge ==
    \/ \E tier \in Bodies({NameA}, {"d"}, {0}, GroupLists(MaxGroupList)),
          apiUp \in BOOLEAN : ReqCreateTier(tier, apiUp)
    \/ \E updates \in Bodies({NameA}, {"d"}, {0}, GroupLists(MaxGroupList)),
          apiUp \in BOOLEAN : ReqUpdateTier(NameA, updates, apiUp)
    \/ ReqDeleteTier(NameA)
    \/ \E group \in GroupInputs, apiUp \in BOOLEAN :
          ReqAddGroup(NameA, group, apiUp)
    \/ \E groupName \in GroupInputs : ReqRemoveGroup(NameA, groupName)
    \/ Respond

SpecEdge == InitEdge /\ [][NextEdge]_vars

----------------------------------------------------------------------------
\* SpecNames: the Name Validator on every string of up to three characters
\* of eight kinds (letter, digit, upper-case letter, the four punctuation
\* marks of the grammar, space) and on strings about the longest length
\* allowed.  The validator is reached through getTiersByGroup, which applies
\* it to its argument before anything else.

Repeat(c, n) == [i \in 1..n |-> c]

ValidatorInputs ==
    UNION {[1..k -> {"a", "0", "A", "-", ":", ".", "_", " "}] : k \in 0..3}
    \cup {Repeat("a", MaxNameLength - 1), Repeat("a", MaxNameLength),
          Repeat("a", MaxNameLength + 1),
          <<"a">> \o Repeat("-", MaxNameLength - 2) \o <<"0">>,
          <<"a">> \o Repeat("-", MaxNameLength - 1) \o <<"0">>,
          Repeat("a", MaxNameLength - 1) \o <<"-">>,
          Repeat("a", MaxNameLength - 1) \o <<"A">>}

NextNames ==
    \/ \E groupName \in ValidatorInputs : ReqListByGroup(groupName, {})
    \/ Respond

SpecNames == InitRead /\ [][NextNames]_vars

----------------------------------------------------------------------------
\* Properties.  A state after a request and before Respond holds the request,
\* its result, and the ConfigMap and annotations the request found.

\* the tiers stored in the ConfigMap c
StoredOf(c) ==
    IF c.exists /\ "tiers" \in c.keys /\ ~c.tiers.blank THEN c.tiers.items ELSE <<>>

\* the names of a stored list, in order
Names(items) == [i \in 1..Len(items) |-> items[i].name]

HasName(items, n) == \E i \in 1..Len(items) : items[i].name = n

\* the stored tier called n
Stored(items, n) == items[CHOOSE i \in 1..Len(items) : items[i].name = n]

ValidationErrors ==
    {"ErrTierNameRequired", "ErrTierDescriptionRequired", "ErrTierLevelInvalid",
     "ErrGroupRequired", "ErrInvalidKubernetesName", "BindingError"}
NotFoundErrors == {"ErrTierNotFound", "ErrGroupNotFound", "ErrNamespaceNotFound"}
ConflictErrors == {"ErrTierAlreadyExists", "ErrGroupAlreadyExists"}
ClassifiedErrors ==
    ValidationErrors \cup NotFoundErrors \cup ConflictErrors
    \cup {"ErrGroupNotFoundInCluster", "ErrTierNameImmutable"}

\* the groups the tier called n had in the stored list items
GroupsOf(items, n) ==
    UNION {{items[i].groups[j] : j \in 1..Len(items[i].groups)} :
              i \in {k \in 1..Len(items) : items[k].name = n}}

\* C1: no two tiers of the registry document have the same name, whatever
\* requests run and however their loads and saves interleave.
C1_UniqueNames ==
    \A i, j \in 1..Len(StoredTiers) :
        StoredTiers[i].name = StoredTiers[j].name => i = j

\* two createTier of one name that loaded the same list and both succeeded
C1_Witness ==
    /\ \A p \in Procs :
          /\ procs[p].pc = "done"
          /\ procs[p].op = "createTier"
          /\ procs[p].err = "ok"
          /\ procs[p].name = NameA
          /\ ~HasName(EncodeTiers(procs[p].snapshot).items, NameA)
    /\ procs["p1"].snapshot = procs["p2"].snapshot
    /\ Len(procs["p1"].snapshot) = 1
    /\ Names(StoredTiers) = <<NameB, NameA>>

\* the two requests loaded the same list and both returned success
BothSucceeded ==
    /\ \A p \in Procs : procs[p].pc = "done" /\ procs[p].err = "ok"
    /\ procs["p1"].snapshot = procs["p2"].snapshot

\* C2: when two requests have loaded the same list and both have returned
\* success, the registry document is the list one of them saved, whole; of two
\* createTier of different names, the registry has only one of the tiers.
C2_LastWriterWins ==
    BothSucceeded =>
        /\ \E p \in Procs : cm.tiers = EncodeTiers(procs[p].tiers)
        /\ (/\ \A p \in Procs : procs[p].op = "createTier"
            /\ procs["p1"].name # procs["p2"].name)
           => \E p \in Procs : ~HasName(StoredTiers, procs[p].name)

\* two createTier of different names that loaded the same list and both
\* succeeded: the tier of the first to save is gone
C2_Witness ==
    /\ BothSucceeded
    /\ procs["p1"].op = "createTier" /\ procs["p1"].name = NameA
    /\ procs["p2"].op = "createTier" /\ procs["p2"].name = NameB
    /\ HasName(StoredTiers, NameB)
    /\ ~HasName(StoredTiers, NameA)

\* two addGroup to tiers of different names that loaded the same list and
\* both succeeded: one of the tiers is without the group
C2_WitnessAddGroup ==
    /\ BothSucceeded
    /\ procs["p1"].op = "addGroup" /\ procs["p1"].name = NameA
    /\ procs["p2"].op = "addGroup" /\ procs["p2"].name = NameB
    /\ GroupsOf(StoredTiers, NameA) = {}
    /\ GroupsOf(StoredTiers, NameB) = {SystemAuthenticatedGroup}

\* the request created a tier whose name was already stored
CreateOfExisting ==
    /\ last.op = "createTier"
    /\ HasName(StoredOf(last.before), last.name)

\* C3, as stated: createTier with a name that is already stored fails with
\* tier-already-exists whatever the payload, and leaves the registry as it was.
C3_ConflictForAnyPayload ==
    CreateOfExisting =>
        /\ last.err = "ErrTierAlreadyExists"
        /\ cm = last.before

\* the payload passes Validate and every group of it is confirmed
PayloadAccepted ==
    /\ last.body.Description # ""
    /\ last.body.Level >= 0
    /\ \A i \in 1..Len(last.body.Groups) :
        /\ ValidateGroupName(last.body.Groups[i]) = "ok"
        /\ GroupExists(last.body.Groups[i], clusterGroups, last.apiUp)
               = Exists(TRUE, "ok")

\* C3, amended: createTier with a name that is already stored fails and leaves
\* the registry as it was, with one tier of that name; the error is
\* tier-already-exists when the payload passes validation and the existence
\* check of its groups, and the error of that validation or check otherwise.
C3_ConflictAfterValidation ==
    CreateOfExisting =>
        /\ cm = last.before
        /\ ~last.wrote
        /\ Cardinality({i \in 1..Len(StoredOf(cm)) :
                            StoredOf(cm)[i].name = last.name}) = 1
        /\ IF PayloadAccepted THEN last.err = "ErrTierAlreadyExists"
           ELSE last.err \in ValidationErrors
                    \cup {"ErrGroupNotFoundInCluster", "GroupLookupFailed"}

\* a createTier that meets a stored tier of its name with other fields
C3_Witness ==
    /\ CreateOfExisting
    /\ last.err = "ErrTierAlreadyExists"
    /\ Stored(StoredOf(last.before), last.name).description # last.body.Description
    /\ Stored(StoredOf(last.before), last.name).level # last.body.Level

RequestedGroups(n) ==
    IF last.name # n THEN {}
    ELSE IF last.op \in {"createTier", "updateTier"}
    THEN {last.body.Groups[i] : i \in 1..Len(last.body.Groups)}
    ELSE IF last.op = "addGroup" THEN {last.group}
    ELSE {}

\* C5: after every request, each group of each stored tier is the built-in
\* group, or was in that tier before the request, or is a group the request
\* asked to store and for which GroupExists answers true during the request.
C5_GroupsConfirmed ==
    Idle \/
    \A i \in 1..Len(StoredOf(cm)) :
        \A g \in GroupsOf(StoredOf(cm), StoredOf(cm)[i].name) :
            \/ g = SystemAuthenticatedGroup
            \/ g \in GroupsOf(StoredOf(last.before), StoredOf(cm)[i].name)
            \/ /\ g \in RequestedGroups(StoredOf(cm)[i].name)
               /\ GroupExists(g, clusterGroups, last.apiUp) = Exists(TRUE, "ok")

\* an addGroup that stored a group of the cluster
C5_Witness ==
    /\ last.op = "addGroup"
    /\ last.err = "ok"
    /\ last.group = GroupG
    /\ GroupG \in GroupsOf(StoredOf(cm), last.name)
    /\ GroupG \notin GroupsOf(StoredOf(last.before), last.name)

\* C6: a request that returns a validation, not-found, conflict,
\* group-not-found-in-cluster or name-immutable error has written nothing, and
\* the ConfigMap is what it was before the request.
C6_NoWriteOnError ==
    last.err \in ClassifiedErrors => ~last.wrote /\ cm = last.before

\* an updateTier that merged a new description and then met a group that is
\* not in the cluster
C6_Witness ==
    /\ last.op = "updateTier"
    /\ last.err = "ErrGroupNotFoundInCluster"
    /\ HasName(StoredOf(last.before), last.name)
    /\ last.body.Description = "e"
    /\ Stored(StoredOf(last.before), last.name).description = "d"
    /\ last.body.Level = 1
    /\ Stored(StoredOf(last.before), last.name).level = 0

\* C7: every stored tier has a name, a description and a level of at least 0.
C7_StoredTiersValid ==
    \A i \in 1..Len(StoredTiers) :
        /\ StoredTiers[i].name # <<>>
        /\ StoredTiers[i].description # ""
        /\ StoredTiers[i].level >= 0

\* an updateTier with an empty description and a negative level that succeeded
C7_Witness ==
    /\ last.op = "updateTier"
    /\ last.err = "ok"
    /\ last.wrote
    /\ last.body.Description = ""
    /\ last.body.Level < 0
    /\ HasName(StoredTiers, last.name)

\* C8, as stated: createTier rejects a name that violates the grammar of the
\* Name Validator with a validation error and stores nothing, and every stored
\* tier name matches the grammar.
C8_TierNameGrammar ==
    /\ \A i \in 1..Len(StoredTiers) :
          ValidateKubernetesName(StoredTiers[i].name) = "ok"
    /\ (last.op = "createTier" /\ ValidateKubernetesName(last.name) # "ok")
       => last.err \in ValidationErrors /\ cm = last.before

\* the stored tier T after the update u is merged into it
Merged(T, u) ==
    [name |-> T.name,
     description |-> IF u.Description # "" THEN u.Description ELSE T.description,
     level |-> IF u.Level >= 0 THEN u.Level ELSE T.level,
     groups |-> IF u.GroupsNil THEN T.groups ELSE u.Groups]

Without(items, n) ==
    LET Keep(t) == t.name # n IN SelectSeq(items, Keep)

\* the annotations that list the tier called n
Listing(n) ==
    {w \in Workloads :
        workloads[w].present
        /\ \E i \in 1..Len(workloads[w].tiers) : workloads[w].tiers[i] = n}

\* C10: deleteTier leaves every annotation as it was; when the name is stored
\* it succeeds and the stored list is the list before it without that tier,
\* in order; when the name is not stored and the registry can be loaded it
\* fails with tier-not-found; and a deleteTier that fails leaves the ConfigMap
\* as it was.
C10_DeleteFrame ==
    last.op = "deleteTier" =>
        /\ workloads = last.wbefore
        /\ IF HasName(StoredOf(last.before), last.name)
           THEN /\ last.err = "ok"
                /\ StoredOf(cm) = Without(StoredOf(last.before), last.name)
                /\ Len(StoredOf(cm)) = Len(StoredOf(last.before)) - 1
           ELSE /\ nsExists => last.err = "ErrTierNotFound"
                /\ last.err # "ok"
                /\ cm = last.before

\* a deleteTier of the second of three tiers, which an annotation lists
C10_Witness ==
    /\ last.op = "deleteTier"
    /\ last.err = "ok"
    /\ Len(StoredOf(last.before)) = 3
    /\ StoredOf(last.before)[2].name = last.name
    /\ Listing(last.name) # {}
    /\ ~HasName(StoredOf(cm), last.name)

\* a deleteTier of a name that is not stored, beside two stored tiers
C10_WitnessAbsent ==
    /\ last.op = "deleteTier"
    /\ last.err = "ErrTierNotFound"
    /\ Len(StoredOf(last.before)) = 2

\* the stored list with the groups of the tier called n replaced by gs
WithGroups(items, n, gs) ==
    [k \in 1..Len(items) |->
        IF items[k].name = n THEN [items[k] EXCEPT !.groups = gs] ELSE items[k]]

\* the request is a group operation on a stored tier
GroupOpOnStored(op) ==
    /\ last.op = op
    /\ HasName(StoredOf(last.before), last.name)

\* C11: addGroup of a well-formed group that GroupExists confirms, to a stored
\* tier: when the group is in the tier's list it fails with
\* group-already-exists and the ConfigMap is as before; otherwise it succeeds
\* and the stored list is the list before with the group appended to the
\* groups of that tier.
C11_AddGroupAppends ==
    (/\ GroupOpOnStored("addGroup")
     /\ ValidateGroupName(last.group) = "ok"
     /\ GroupExists(last.group, clusterGroups, last.apiUp) = Exists(TRUE, "ok"))
    => LET old == StoredOf(last.before)
           gs == Stored(old, last.name).groups
       IN  IF \E j \in 1..Len(gs) : gs[j] = last.group
           THEN /\ last.err = "ErrGroupAlreadyExists"
                /\ ~last.wrote
                /\ cm = last.before
           ELSE /\ last.err = "ok"
                /\ StoredOf(cm) = WithGroups(old, last.name, Append(gs, last.group))

\* an addGroup that appended a group to the non-empty list of the first of
\* two tiers
C11_Witness ==
    /\ GroupOpOnStored("addGroup")
    /\ last.err = "ok"
    /\ Len(StoredOf(last.before)) = 2
    /\ StoredOf(last.before)[1].name = last.name
    /\ StoredOf(last.before)[1].groups = <<SystemAuthenticatedGroup>>
    /\ StoredOf(cm)[1].groups = <<SystemAuthenticatedGroup, GroupG>>
    /\ StoredOf(cm)[2] = StoredOf(last.before)[2]

\* an addGroup of a group the tier already lists
C11_WitnessDuplicate ==
    /\ GroupOpOnStored("addGroup")
    /\ last.err = "ErrGroupAlreadyExists"
    /\ last.group = GroupG

\* the result of removeGroup on a stored tier, for a group the validator
\* accepts
RemoveGroupOutcome ==
    LET old == StoredOf(last.before)
        gs == Stored(old, last.name).groups
    IN  IF IndexOf(gs, last.group) = 0
        THEN /\ last.err = "ErrGroupNotFound"
             /\ ~last.wrote
             /\ cm = last.before
        ELSE /\ last.err = "ok"
             /\ StoredOf(cm) =
                   WithGroups(old, last.name, RemoveAt(gs, IndexOf(gs, last.group)))

\* C12, as stated: removeGroup on a stored tier fails with group-not-found and
\* changes nothing when the group is not in the tier's list, and otherwise
\* removes the matched entry and keeps the order of the others.
C12_RemoveGroupAnyName == GroupOpOnStored("removeGroup") => RemoveGroupOutcome

\* C12, amended: the same for a group name the validator accepts; a name the
\* validator rejects fails with the validation error and changes nothing.
C12_RemoveGroupValidName ==
    GroupOpOnStored("removeGroup") =>
        IF ValidateGroupName(last.group) = "ok" THEN RemoveGroupOutcome
        ELSE /\ last.err = ValidateGroupName(last.group)
             /\ last.err \in ValidationErrors
             /\ ~last.wrote
             /\ cm = last.before

\* a removeGroup that removed the first of two equal entries and kept the
\* entry after it
C12_Witness ==
    /\ GroupOpOnStored("removeGroup")
    /\ last.err = "ok"
    /\ Stored(StoredOf(last.before), last.name).groups
          = <<GroupG, GroupG, SystemAuthenticatedGroup>>
    /\ last.group = GroupG
    /\ Stored(StoredOf(cm), last.name).groups = <<GroupG, SystemAuthenticatedGroup>>

\* a getTiersForUser that returned a list
Resolved == last.op = "getTiersForUser" /\ last.err = "ok"

\* the place of the tier called n in the stored list
PlaceOf(items, n) == CHOOSE i \in 1..Len(items) : items[i].name = n

\* C13: the list getTiersForUser returns is in non-decreasing order of level,
\* and two tiers of it with the same level are in the order the registry has
\* them in.
C13_SortedStable ==
    Resolved =>
        \A i, j \in 1..Len(last.result) :
            i < j =>
                /\ last.result[i].Level <= last.result[j].Level
                /\ last.result[i].Level = last.result[j].Level
                   => PlaceOf(StoredOf(last.before), last.result[i].Name)
                        < PlaceOf(StoredOf(last.before), last.result[j].Name)

\* three tiers returned, the first of the registry last, the two of the same
\* level in the order of the registry
C13_Witness ==
    /\ Resolved
    /\ Len(last.result) = 3
    /\ [i \in 1..3 |-> StoredOf(last.before)[i].level] = <<1, 0, 0>>
    /\ [i \in 1..3 |-> last.result[i].Name]
          = <<StoredOf(last.before)[2].name, StoredOf(last.before)[3].name,
              StoredOf(last.before)[1].name>>

\* the stored tiers that list a group of the user, in the order of the
\* registry
Eligible(items, userGroups) ==
    LET Shares(t) == \E k \in 1..Len(t.groups) : t.groups[k] \in userGroups
    IN  SelectSeq(items, Shares)

\* C14: getTiersForUser returns one UserTier for each stored tier that lists
\* a group of the user and for no other; it carries the tier's name,
\* description and level, and those groups of the tier the user is in, in the
\* order of the tier.
C14_IntersectingGroups ==
    Resolved =>
        LET e == Eligible(StoredOf(last.before), last.arg)
            InGroups(g) == g \in last.arg
        IN  /\ Len(last.result) = Len(e)
            /\ \A i \in 1..Len(e) :
                  \E j \in 1..Len(last.result) :
                      last.result[j] =
                          UserTier(e[i].name, e[i].description, e[i].level,
                                   SelectSeq(e[i].groups, InGroups))
            /\ \A j \in 1..Len(last.result) :
                  \A k \in 1..Len(last.result[j].Groups) :
                      last.result[j].Groups[k] \in last.arg

\* a user in one of the two groups of a tier and in no group of another tier
C14_Witness ==
    /\ Resolved
    /\ last.arg = {GroupG, GroupH}
    /\ Len(StoredOf(last.before)) = 3
    /\ StoredOf(last.before)[1].groups = <<SystemAuthenticatedGroup>>
    /\ StoredOf(last.before)[2].groups = <<SystemAuthenticatedGroup, GroupG>>
    /\ Len(last.result) = 2
    /\ \E j \in 1..2 :
          /\ last.result[j].Name = StoredOf(last.before)[2].name
          /\ last.result[j].Groups = <<GroupG>>

\* the tier names an annotation lists, none when it is absent, empty or not a
\* list
Decoded(a) == IF a.present /\ ~a.blank /\ a.valid THEN a.tiers ELSE <<>>

\* how many times x is in seq
Count(seq, x) == Cardinality({i \in 1..Len(seq) : seq[i] = x})

\* the request named a namespace, a workload and a tier
Addressed == last.arg[1] # "" /\ last.arg[2] # "" /\ last.name # <<>>

\* the workload the request is about
Target == Key(last.arg[1], last.arg[2])

\* C15: annotate is idempotent: after an annotate that succeeded, the same
\* annotate again succeeds, leaves every annotation as it is, and the decoded
\* list of the workload has the tier exactly once.
C15_AnnotateIdempotent ==
    (last.op = "annotate" /\ last.err = "ok") =>
        LET again == AnnotateLLMInferenceServiceWithTier(
                         last.arg[1], last.arg[2], last.name, nsExists, cm,
                         workloads)
        IN  /\ again.err = "ok"
            /\ again.workloads = workloads
            /\ Decoded(again.workloads[Target]) = Decoded(workloads[Target])
            /\ Count(Decoded(workloads[Target]), last.name) = 1

\* an annotate repeated: it succeeded on an annotation that had the tier, next
\* to another tier, and wrote the same list
C15_Witness ==
    /\ last.op = "annotate" /\ last.err = "ok"
    /\ Count(Decoded(last.wbefore[Target]), last.name) = 1
    /\ Len(Decoded(last.wbefore[Target])) = 2
    /\ workloads = last.wbefore

\* C16: annotate with a namespace, a workload and a tier named: when the
\* registry can be loaded and has no tier of that name it fails with
\* tier-not-found; when the tier is stored and the namespace does not exist it
\* fails with namespace-not-found; when the tier is stored, the namespace
\* exists and the workload does not, it fails with workload-not-found; and an
\* annotate that fails leaves every annotation as it was.
C16_AnnotateFailures ==
    (last.op = "annotate" /\ Addressed) =>
        /\ (nsExists /\ ~HasName(StoredOf(last.before), last.name))
              => last.err = "ErrTierNotFound"
        /\ (HasName(StoredOf(last.before), last.name)
            /\ last.arg[1] \notin Namespaces)
              => last.err = "ErrNamespaceNotFound"
        /\ (HasName(StoredOf(last.before), last.name)
            /\ last.arg[1] \in Namespaces /\ Target \notin Workloads)
              => last.err = "ErrLLMInferenceServiceNotFound"
        /\ last.err # "ok" => workloads = last.wbefore

\* an annotate with a tier that is not stored, to a workload that exists and
\* is annotated with another tier
C16_Witness ==
    /\ last.op = "annotate" /\ Addressed
    /\ last.err = "ErrTierNotFound"
    /\ Target \in Workloads
    /\ Decoded(workloads[Target]) # <<>>
    /\ StoredOf(last.before) # <<>>

\* an annotate with a stored tier to a workload that does not exist in a
\* namespace that does
C16_WitnessWorkload ==
    /\ last.op = "annotate"
    /\ last.err = "ErrLLMInferenceServiceNotFound"
    /\ last.arg[1] \in Namespaces

\* the annotation lists the tier called n
Lists(a, n) == \E i \in 1..Len(Decoded(a)) : Decoded(a)[i] = n

\* C17: removeTier of a workload that exists: when its annotation lists the
\* tier it succeeds, whether the registry has the tier or not, and the
\* annotation is the list before without that name, in order, every other
\* annotation as it was; when the annotation is absent, empty, or a list
\* without the tier it fails with tier-not-found-in-annotation; and a
\* removeTier that fails leaves every annotation as it was.
C17_RemoveTier ==
    (last.op = "removeTier" /\ Addressed /\ Target \in Workloads) =>
        LET a == last.wbefore[Target]
            Other(t) == t # last.name
        IN  /\ Lists(a, last.name) <=> last.err = "ok"
            /\ last.err = "ok" =>
                  /\ workloads[Target] = Annotation(SelectSeq(Decoded(a), Other))
                  /\ Len(Decoded(workloads[Target])) = Len(Decoded(a)) - 1
                  /\ \A w \in Workloads \ {Target} :
                        workloads[w] = last.wbefore[w]
            /\ (a.valid /\ ~Lists(a, last.name))
                  => last.err = "ErrTierNotFoundInAnnotation"
            /\ last.err # "ok" => workloads = last.wbefore

\* a removeTier of a tier the registry no longer has, from an annotation of
\* two tiers: the other tier stays
C17_Witness ==
    /\ last.op = "removeTier" /\ last.err = "ok"
    /\ nsExists
    /\ ~HasName(StoredOf(cm), last.name)
    /\ Len(Decoded(last.wbefore[Target])) = 2
    /\ Decoded(last.wbefore[Target])[1] = last.name
    /\ Len(Decoded(workloads[Target])) = 1

\* a removeTier from an empty annotation
C17_WitnessEmpty ==
    /\ last.op = "removeTier" /\ last.err = "ErrTierNotFoundInAnnotation"
    /\ last.wbefore[Target] = BlankAnnotation

\* the workloads of a result, by namespace/name
KeysOf(result) ==
    {Key(result[i].Namespace, result[i].Name) : i \in 1..Len(result)}

\* what listByTier of the tier called n returns now
ListedNow(n) ==
    KeysOf(LLMInferenceServiceService_GetLLMInferenceServicesByTier(
               n, TRUE, workloads).result)

\* C18: a listByTier that succeeds returns the workloads of all namespaces
\* whose decoded annotation lists the tier, each once and with its decoded
\* list; after an annotate that succeeded listByTier of the tier includes the
\* workload, and after a removeTier that succeeded it does not.
C18_ListByTier ==
    /\ (last.op = "listByTier" /\ last.err = "ok") =>
          /\ KeysOf(last.result) = Listing(last.name)
          /\ Len(last.result) = Cardinality(Listing(last.name))
          /\ \A i \in 1..Len(last.result) :
                last.result[i].Tiers =
                   Decoded(workloads[Key(last.result[i].Namespace,
                                         last.result[i].Name)])
    /\ (last.op = "annotate" /\ last.err = "ok") => Target \in ListedNow(last.name)
    /\ (last.op = "removeTier" /\ last.err = "ok")
          => Target \notin ListedNow(last.name)

\* a listByTier that returns a workload of each namespace, one of them
\* annotated with another tier as well
C18_Witness ==
    /\ last.op = "listByTier" /\ last.err = "ok"
    /\ KeysOf(last.result) = Workloads
    /\ \E w \in Workloads : Len(Decoded(workloads[w])) = 2
    /\ \E w \in Workloads : Len(Decoded(workloads[w])) = 1

\* a removeTier that succeeded on a workload listByTier returned before it
C18_WitnessRemoved ==
    /\ last.op = "removeTier" /\ last.err = "ok"
    /\ Lists(last.wbefore[Target], last.name)
    /\ ListedNow(last.name) # {}

\* the workloads annotated with at least one stored tier whose groups have g
ReachableByGroup(items, g) ==
    {w \in Workloads :
        \E i \in 1..Len(items) :
            /\ \E j \in 1..Len(items[i].groups) : items[i].groups[j] = g
            /\ w \in Listing(items[i].name)}

\* C19: a listByGroup that succeeds, no listing of a tier having failed,
\* returns the workloads annotated with at least one tier whose groups contain
\* the group, each exactly once.
C19_ListByGroup ==
    (last.op = "listByGroup" /\ last.err = "ok" /\ last.arg = {}) =>
        /\ KeysOf(last.result) = ReachableByGroup(StoredOf(cm), last.group)
        /\ Len(last.result) =
              Cardinality(ReachableByGroup(StoredOf(cm), last.group))

\* a listByGroup of a group two tiers share, both listed by one workload and
\* one of them by the other workload
C19_Witness ==
    /\ last.op = "listByGroup" /\ last.err = "ok" /\ last.arg = {}
    /\ Len(last.result) = 2
    /\ \E i \in 1..2 : Len(last.result[i].Tiers) = 2
    /\ \A i \in 1..Len(StoredOf(cm)) : StoredOf(cm)[i].groups = <<last.group>>
    /\ Len(StoredOf(cm)) = 2

\* both requests got the workload in the same version, sent their Update,
\* and have their result
BothUpdated ==
    /\ \A p \in Procs :
          /\ procs[p].pc = "done"
          /\ procs[p].op \in {"annotate", "removeTier"}
          /\ procs[p].err \in {"ok", "ErrConflict"}
          /\ procs[p].together

\* the request asked for a change of the annotation it read
Changing(p) == procs[p].tiers # procs[p].snapshot

C20_WitnessNoChange ==
    /\ BothUpdated
    /\ \A p \in Procs : procs[p].err = "ok"
    /\ ~Changing("p1") /\ Changing("p2")
    /\ workloads[Key(ConcNamespace, ConcWorkload)] = procs["p2"].tiers

\* the groups a createTier or an addGroup has the Oracle look up
LookedUp ==
    IF last.op = "createTier" THEN last.body.Groups
    ELSE IF last.op = "addGroup" THEN <<last.group>>
    ELSE <<>>

\* the request passed the checks made before the first lookup
PassedValidation ==
    \/ /\ last.op = "createTier"
       /\ last.body.Name # <<>>
       /\ Validate(last.body) = "ok"
    \/ /\ last.op = "addGroup"
       /\ last.group # <<>>
       /\ ValidateGroupName(last.group) = "ok"

\* C21: createTier and addGroup report group-not-found-in-cluster only when
\* the lookup answered and a group they name, other than the built-in one, is
\* not in the cluster; they report the failure of the lookup, as a different
\* error, only when the lookup failed for such a group, and always then; and a
\* request that names the built-in group only gets neither error, whether the
\* API server can be reached or not.
C21_OracleOutcomes ==
    last.op \in {"createTier", "addGroup"} =>
        LET Remote(i) == LookedUp[i] # SystemAuthenticatedGroup
        IN  /\ last.err = "ErrGroupNotFoundInCluster" =>
                  /\ last.apiUp
                  /\ \E i \in 1..Len(LookedUp) :
                        Remote(i) /\ LookedUp[i] \notin clusterGroups
            /\ last.err = "GroupLookupFailed" =>
                  ~last.apiUp /\ \E i \in 1..Len(LookedUp) : Remote(i)
            /\ (PassedValidation /\ ~last.apiUp
                /\ \E i \in 1..Len(LookedUp) : Remote(i))
                  => last.err = "GroupLookupFailed"
            /\ (\A i \in 1..Len(LookedUp) : ~Remote(i))
                  => last.err \notin {"ErrGroupNotFoundInCluster",
                                      "GroupLookupFailed"}

\* a createTier with the built-in group only succeeds while the API server
\* cannot be reached for lookups
C21_Witness ==
    /\ last.op = "createTier" /\ last.err = "ok"
    /\ ~last.apiUp
    /\ last.body.Groups = <<SystemAuthenticatedGroup, SystemAuthenticatedGroup>>

\* an addGroup of a group of the cluster while the lookup fails
C21_WitnessLookupFailed ==
    /\ last.op = "addGroup" /\ last.err = "GroupLookupFailed"
    /\ last.group \in clusterGroups

\* the registry document holds no tier: it does not exist, has no tiers key,
\* or the key holds the empty string or the empty list
NoTiersIn(c) ==
    \/ ~c.exists
    \/ "tiers" \notin c.keys
    \/ c.tiers.blank
    \/ c.tiers.items = <<>>

\* C22: in every state, load fails with namespace-not-found when the namespace
\* of the document does not exist, and otherwise returns the empty list
\* without error when the document is absent, lacks the tiers key, or has it
\* empty; a deleteTier then answers tier-not-found; and a request that
\* succeeds on a registry whose document was absent leaves a document that
\* exists and holds what the request stored.
C22_LoadOfMissing ==
    /\ ~nsExists => Load(nsExists, cm) = Result("ErrNamespaceNotFound", <<>>)
    /\ (nsExists /\ NoTiersIn(cm)) => Load(nsExists, cm) = Result("ok", <<>>)
    /\ (last.op = "deleteTier" /\ NoTiersIn(last.before)) =>
          last.err = IF nsExists THEN "ErrTierNotFound" ELSE "ErrNamespaceNotFound"
    /\ (~Idle /\ last.err = "ok" /\ ~last.before.exists) =>
          /\ cm.exists
          /\ "tiers" \in cm.keys
          /\ last.op = "createTier"
          /\ Names(StoredOf(cm)) = <<last.name>>

\* a createTier on a registry without a document: the document is created
C22_Witness ==
    /\ last.op = "createTier" /\ last.err = "ok"
    /\ ~last.before.exists
    /\ cm.exists
    /\ Len(StoredOf(cm)) = 1

\* a deleteTier on a document that has another key and no tiers key
C22_WitnessNoKey ==
    /\ last.op = "deleteTier" /\ last.err = "ErrTierNotFound"
    /\ last.before.exists /\ last.before.keys = {"other"}

\* the tier as it is after a save and a load: the same fields, the groups a
\* list that is not nil
NotNil(t) == [t EXCEPT !.GroupsNil = FALSE]

\* tiers to save: two names, two levels, no groups field, an empty list, one
\* group
RoundTripTiers(name) ==
    Bodies({name}, {"d", "e"}, {0, MaxLevel},
           {<<>>, <<GroupG>>, <<SystemAuthenticatedGroup, GroupG>>})

InGrammar(name) ==
    /\ Len(name) \in 1..MaxNameLength
    /\ \A i \in 1..Len(name) : ~IsUpper(name[i])
    /\ name[1] \in AlphaNum
    /\ name[Len(name)] \in AlphaNum
    /\ \A i \in 2..(Len(name) - 1) : name[i] \in AlphaNum \cup {"-", ":", ".", "_"}

\* C24: the validator returns a result for every string: 'group name is
\* required' for the empty string, 'invalid format' for every other string
\* outside the grammar, and no error for the strings of the grammar; a call
\* that validates its argument first fails with the error of the validator
\* exactly when the validator rejects the argument.
C24_ValidatorGrammar ==
    last.op = "listByGroup" =>
        /\ ValidateKubernetesName(last.group) =
              IF last.group = <<>> THEN "ErrGroupRequired"
              ELSE IF InGrammar(last.group) THEN "ok"
              ELSE "ErrInvalidKubernetesName"
        /\ last.group = <<>> <=> last.err = "ErrGroupRequired"
        /\ (last.group # <<>> /\ ~InGrammar(last.group))
              <=> last.err = "ErrInvalidKubernetesName"

\* a name of the longest length allowed, with hyphens between its first and
\* last character, is accepted
C24_Witness ==
    /\ last.op = "listByGroup"
    /\ Len(last.group) = MaxNameLength
    /\ last.group[2] = "-"
    /\ last.err \notin {"ErrGroupRequired", "ErrInvalidKubernetesName"}

\* a name one character longer than allowed is rejected
C24_WitnessTooLong ==
    /\ last.op = "listByGroup"
    /\ last.group = Repeat("a", MaxNameLength + 1)
    /\ last.err = "ErrInvalidKubernetesName"

\* the group names a request supplies
Supplied ==
    IF last.op \in {"createTier", "updateTier"} THEN last.body.Groups
    ELSE IF last.op \in {"addGroup", "removeGroup"} THEN <<last.group>>
    ELSE <<>>

\* the request supplies a group name the validator rejects
SuppliesInvalidGroup ==
    \E i \in 1..Len(Supplied) : ValidateGroupName(Supplied[i]) # "ok"

\* the errors a request can get before it has made any remote call
LocalErrors == ValidationErrors \cup {"ErrTierNameImmutable"}

\* C25, as stated: a createTier, updateTier, addGroup or removeGroup that
\* supplies a group name the validator rejects is rejected before any remote
\* call: its error is one made locally, never the answer of a load or of a
\* Group lookup.
C25_ValidatedBeforeRemote ==
    SuppliesInvalidGroup => last.err \in LocalErrors

\* what the code does: every operation but updateTier rejects the name before
\* any remote call; updateTier loads the registry first, and validates the
\* group names only when the tier is stored
C25_ValidatedAfterLoadInUpdate ==
    SuppliesInvalidGroup =>
        IF last.op # "updateTier" THEN last.err \in LocalErrors
        ELSE last.err = IF ~nsExists THEN "ErrNamespaceNotFound"
                        ELSE IF ~HasName(StoredOf(last.before), last.name)
                        THEN "ErrTierNotFound"
                        ELSE "ErrInvalidKubernetesName"

\* an updateTier with an upper-case group name, answered by the load
C25_Witness ==
    /\ last.op = "updateTier"
    /\ SuppliesInvalidGroup
    /\ last.err = "ErrNamespaceNotFound"

\* the stored tiers whose groups have the group of the request and whose
\* listing failed during the request
FailedListings ==
    {i \in 1..Len(StoredOf(cm)) :
        /\ \E j \in 1..Len(StoredOf(cm)[i].groups) :
              StoredOf(cm)[i].groups[j] = last.group
        /\ StoredOf(cm)[i].name \in last.arg}

\* C26, as stated: a listByGroup during which the listing of the workloads of
\* a tier of the group fails returns an error.
C26_ListFailurePropagates ==
    (last.op = "listByGroup" /\ FailedListings # {}) => last.err # "ok"

\* a listByGroup of a group of two tiers: the listing of one tier failed, the
\* call reports success, and a workload annotated with that tier only is not
\* in the result
C26_Witness ==
    /\ last.op = "listByGroup" /\ last.err = "ok"
    /\ Cardinality(FailedListings) = 1
    /\ Len(last.result) = 1
    /\ Cardinality(ReachableByGroup(StoredOf(cm), last.group)) = 2

\* no element of the list is in it twice
NoRepeat(seq) == \A i, j \in 1..Len(seq) : seq[i] = seq[j] => i = j

\* C27, as stated: no stored tier has the same group twice in its list, and
\* after a removeGroup that succeeded the group is not in the list of the
\* tier.
C27_GroupsAreSet ==
    /\ \A i \in 1..Len(StoredOf(cm)) : NoRepeat(StoredOf(cm)[i].groups)
    /\ (last.op = "removeGroup" /\ last.err = "ok")
          => last.group \notin GroupsOf(StoredOf(cm), last.name)

\* a removeGroup that succeeded on a tier created with the same group twice:
\* the group is still in the list
C27_Witness ==
    /\ last.op = "removeGroup" /\ last.err = "ok"
    /\ Stored(StoredOf(last.before), last.name).groups = <<last.group, last.group>>
    /\ Stored(StoredOf(cm), last.name).groups = <<last.group>>

\* the part about the save that succeeded: the document exists afterwards, a
\* load of it succeeds and the other fields of the document are kept
C28_SuccessfulSaveKeepsFields ==
    last.wrote =>
       /\ cm.exists /\ ~cm.dataNil
       /\ cm.keys = last.before.keys \cup {"tiers"}
       /\ Load(nsExists, cm).err = "ok"

\* C28, as stated: whatever the registry document was (absent, present
\* without data, present without a tiers field, present with tiers), a save
\* ends in success or in an error and never crashes; after a save that
\* succeeded the document exists, a load of it succeeds and every other
\* field of the document is as it was.
C28_SaveNeverCrashes ==
    /\ last.err # "panic"
    /\ C28_SuccessfulSaveKeepsFields

\* a request whose save met the registry document without data
C28_Witness ==
    /\ last.op \in {"createTier", "updateTier", "deleteTier", "addGroup", "removeGroup"}
    /\ last.before = EmptyCM
    /\ last.err = "panic"
    /\ cm = EmptyCM

\* the Update of request p is accepted and adds its tier to the annotation
AddsTier(p) ==
    /\ procs[p].pc = "got" /\ procs[p].op = "annotate"
    /\ procs'[p].pc = "done" /\ procs'[p].err = "ok"
    /\ ~Lists(workloads[Key(ConcNamespace, ConcWorkload)], procs[p].name)
    /\ Lists(workloads'[Key(ConcNamespace, ConcWorkload)], procs[p].name)

\* C29, as stated: whatever deleteTier requests are served beside an annotate,
\* when the Update of the annotate adds tier t to the annotation of the
\* workload, t is a tier of the registry.
C29_AnnotatedTierInRegistry ==
    [][\A p \in Procs : AddsTier(p) => HasName(StoredOf(cm), procs[p].name)]_vars

\* an annotate is past its check of the tier and holds the workload in its
\* current version, the tier is not yet in the annotation, and the deleteTier
\* of the tier has just succeeded
C29_Witness ==
    \E p \in Procs :
       /\ procs[p].pc = "got" /\ procs[p].op = "annotate" /\ ~procs[p].stale
       /\ last.op = "deleteTier" /\ last.err = "ok" /\ last.name = procs[p].name
       /\ ~HasName(StoredOf(cm), procs[p].name)
       /\ ~Lists(workloads[Key(ConcNamespace, ConcWorkload)], procs[p].name)
       /\ Lists(procs[p].tiers, procs[p].name)

\* C30: an annotate that succeeded only adds.  The tiers that the annotation
\* of the workload listed before, written by the program or not, are listed
\* afterwards in the same order, with the tier of the call behind them when
\* it was not among them; the value written is a list; the other annotation
\* keys of the workload and the other workloads are as they were.
C30_AnnotateOnlyAdds ==
    (last.op = "annotate" /\ last.err = "ok") =>
        LET old == last.wbefore[Target]
            new == workloads[Target]
        IN  /\ new.present /\ ~new.blank /\ new.valid
            /\ new.tiers = IF Lists(old, last.name) THEN Decoded(old)
                           ELSE Decoded(old) \o <<last.name>>
            /\ new.others = old.others
            /\ \A w \in Workloads \ {Target} : workloads[w] = last.wbefore[w]

\* a tier is added to an annotation that was written outside the program, on
\* a workload with another annotation key
C30_Witness ==
    /\ last.op = "annotate" /\ last.err = "ok" /\ last.name = NameA
    /\ last.wbefore[Target].tiers = <<NameB, <<"x">>>>
    /\ last.wbefore[Target].others = {"app"}
    /\ workloads[Target].tiers = <<NameB, <<"x">>, NameA>>
    /\ workloads[Target].others = {"app"}

====
